---- MODULE Spec2Model ----
(***************************************************************************)
(* A model of cosmosloadtester's hybrid load-test orchestrator             *)
(* (HybridServer.runHybridLoadTest), the transports and the factory it     *)
(* drives, and the recovery package's circuit breaker, panic wrappers and  *)
(* retry helpers, error collector, the error taxonomy, the HTTP RPC client *)
(* and the command-line program's runLoadTest.                             *)
(*                                                                         *)
(* The specifications of the module:                                       *)
(*   Spec        the orchestrator: one RunLoadtest call over a list of     *)
(*               endpoints, with the transports' send loops, the duration  *)
(*               timer and the caller's context as the environment;        *)
(*   SpecAny     the same call with a request of any kind;                 *)
(*   SpecLive    Spec with the fairness of sequential code and of          *)
(*               transports that honour Cancel();                          *)
(*   SpecFactory TransactorFactory.CreateTransactor on its own;            *)
(*   SpecCB      one CircuitBreaker used by one caller at a time;          *)
(*   SpecCBC     the same CircuitBreaker called from several goroutines,   *)
(*               a step being Execute's state check or the end of fn;      *)
(*   SpecRec     one call of SafeGo, SafeGoWithContext, SafeExecute,       *)
(*               SafeExecuteWithRetry or ExponentialBackoffRetry;          *)
(*   SpecRecFair SpecRec in which the helper keeps taking its steps;       *)
(*   SpecEC      one ErrorCollector under Add, Clear and ToMultiError;     *)
(*   SpecErr     IsRecoverable applied to errors of every type;            *)
(*   SpecHT      one SimpleHybridTransactor under any sequence of calls;   *)
(*   SpecHTRun   SpecHT together with the runs of Spec;                    *)
(*   SpecHC      one HTTPRPCClient called from several goroutines;         *)
(*   SpecCLI     the command-line main, cli.Run and runLoadTest with the   *)
(*               load-test goroutine, the reporter and the signal;         *)
(*   SpecCLIFair SpecCLI in which every goroutine keeps running.           *)
(***************************************************************************)
EXTENDS Integers, Sequences, FiniteSets, TLC

\* ------------------------------------------------------------------ bounds
MaxEndpoints == 2
MaxTx == 2
MaxTime == 4
MaxFnCalls == 4
MaxMaxFailures == 2
MaxResetTimeout == 2
NumGoroutines == 2
MaxRetriesBound == 3
MaxDelayBound == 4
MaxFactoryCalls == 2
MaxAdds == 4
MaxClassified == 2
MaxHTCalls == 4
MaxRequests == 3
MaxTicks == 2

\* ------------------------------------------------------- program constants
\* 5*time.Second, the interval handed to SetProgressCallback, in seconds.
ProgressIntervalSec == 5
\* time.Second in the unit of the retry helpers' delays.
Second == 2
\* The smallest transaction size the load-test protocol accepts, in bytes.
MinTxSize == 40

VARIABLES
    \* --- orchestrator (package server, HybridServer)
    req,          \* the RunLoadtestRequest: endpoints, clientFactory, sizes, rates
    pc,           \* the position of RunLoadtest / runHybridLoadTest
    idx,          \* the index of the loop the orchestrator is in (1-based)
    transactors,  \* the transactors slice: indices of the created transports
    tr,           \* the transports, by endpoint index
    totals,       \* totalTxCount, totalTxBytes
    ret,          \* what the call returned
    timer,        \* "off" | "armed" | "fired": time.After(testDuration)
    ctxDone,      \* the caller's context has been cancelled
    phaseEnd,     \* which branch of the select ended the active phase
    calls,        \* the calls made on the factory and the transports, in order
    \* --- circuit breaker (package recovery)
    cb,           \* the CircuitBreaker struct
    now,          \* the clock
    gpc,          \* per goroutine: "idle" or "infn" (inside the wrapped fn)
    trial,        \* per goroutine: its call in progress entered through Open
    obs,          \* what the callers observed: counts and the last outcome
    \* --- panic wrappers and retry helpers (package recovery)
    rc,           \* one call of a RecoveryHandler helper and what it did
    \* --- transport factory used on its own (package loadtest)
    fa,           \* the endpoints handed to CreateTransactor and the results
    \* --- error collector (package recovery)
    ec,           \* an ErrorCollector, the Add calls made and what was read
    \* --- error classification (package errors)
    er,           \* the errors handed to IsRecoverable and the answers
    \* --- one hybrid transactor used on its own (package loadtest)
    ht,           \* a SimpleHybridTransactor and the calls made on it
    \* --- HTTP RPC client (package httprpc)
    hc,           \* an HTTPRPCClient and its callers
    \* --- command-line program (package main)
    cli           \* main, runLoadTest and the load-test goroutine

orchVars == <<req, pc, idx, transactors, tr, totals, ret, timer, ctxDone,
              phaseEnd, calls>>
cbVars == <<cb, now, gpc, trial, obs>>
auxVars == <<rc, fa, ec, er, ht, hc, cli>>
vars == <<req, pc, idx, transactors, tr, totals, ret, timer, ctxDone,
          phaseEnd, calls, cb, now, gpc, trial, obs, rc, fa, ec, er, ht, hc, cli>>
\* What the steps of one part of the program leave alone.
recOthers == <<orchVars, cbVars, fa, ec, er, ht, hc, cli>>
faOthers == <<orchVars, cbVars, rc, ec, er, ht, hc, cli>>
ecOthers == <<orchVars, cbVars, rc, fa, er, ht, hc, cli>>
erOthers == <<orchVars, cbVars, rc, fa, ec, ht, hc, cli>>
htOthers == <<orchVars, cbVars, rc, fa, ec, er, hc, cli>>
hcOthers == <<orchVars, cbVars, rc, fa, ec, er, ht, cli>>
cliOthers == <<orchVars, cbVars, rc, fa, ec, er, ht, hc>>

\* ---------------------------------------------------------------- helpers
RECURSIVE SumOver(_, _)
SumOver(f, S) ==
    IF S = {} THEN 0
    ELSE LET x == CHOOSE y \in S : TRUE IN f[x] + SumOver(f, S \ {x})

Range(s) == {s[k] : k \in 1..Len(s)}

\* Positions of the calls of operation op on transport t in the call log.
Pos(op, t) == {k \in 1..Len(calls) : calls[k].op = op /\ calls[k].t = t}
Count(op, t) == Cardinality(Pos(op, t))

\* ===================================================== transport factory
\* An endpoint is modelled by what url.Parse makes of it: its scheme (in
\* lower case, "" when the URL has none), or "%" for a URL that does not
\* parse.
Schemes == {"ws", "wss", "http", "https", "ftp", "tcp", "", "%"}
\* The endpoints the orchestrator runs are drawn from one streaming scheme,
\* one request/response scheme and one unsupported scheme.
RunSchemes == {"ws", "https", "ftp"}

\* An outcome of CreateTransactor: the transactor returned (kind) or the
\* error, and the constructor the factory called.
FactoryError(err) == [ok |-> FALSE, kind |-> "none", ctor |-> "none", err |-> err]

\* Mutant: every scheme that is not a streaming one goes to
\* NewHybridTransactor, which rejects what it does not support.
CreateTransactor_HybridDefault(endpoint) ==
    IF endpoint = "%" THEN {FactoryError("invalid endpoint URL")}
    ELSE IF endpoint \in {"ws", "wss"}
        THEN {[ok |-> TRUE, kind |-> "ws", ctor |-> "loadtest.NewTransactor", err |-> ""],
              [ok |-> FALSE, kind |-> "none", ctor |-> "loadtest.NewTransactor",
               err |-> "dial"]}
    ELSE IF endpoint \in {"http", "https"}
        THEN {[ok |-> TRUE, kind |-> "http", ctor |-> "NewHybridTransactor", err |-> ""]}
    ELSE {[ok |-> FALSE, kind |-> "none", ctor |-> "NewHybridTransactor",
           err |-> "unsupported protocol"]}

\* TransactorFactory.CreateTransactor: the outcomes it can have.  The
\* streaming constructor (tm-load-test's NewTransactor) dials and may fail;
\* NewHybridTransactor on an http(s) URL builds an HTTP client and cannot.
CreateTransactor(endpoint) ==
    IF endpoint = "%" THEN {FactoryError("invalid endpoint URL")}
    ELSE IF endpoint \in {"ws", "wss"}
        THEN {[ok |-> TRUE, kind |-> "ws", ctor |-> "loadtest.NewTransactor", err |-> ""],
              [ok |-> FALSE, kind |-> "none", ctor |-> "loadtest.NewTransactor",
               err |-> "dial"]}
    ELSE IF endpoint \in {"http", "https"}
        THEN {[ok |-> TRUE, kind |-> "http", ctor |-> "NewHybridTransactor", err |-> ""]}
    ELSE {FactoryError("unsupported protocol")}

\* ============================================================ transports
NoTransport ==
    [kind |-> "none", started |-> FALSE, stop |-> FALSE, running |-> FALSE,
     txCount |-> 0, txBytes |-> 0, cbId |-> -1, cbInterval |-> 0]

NewTransport(kind) == [NoTransport EXCEPT !.kind = kind]

\* SetProgressCallback(id, interval, callback)
SetProgressCallback(t, id, interval) ==
    [t EXCEPT !.cbId = id, !.cbInterval = interval]

\* Mutant: the HTTP-backed transactor starts a send loop as well.
TStart_HttpSends(t) == [t EXCEPT !.started = TRUE, !.running = TRUE]

\* Start(): the streaming transactor starts its send loop; the HTTP-backed
\* SimpleHybridTransactor records its start time and sends nothing.
TStart(t) ==
    IF t.kind = "ws" THEN [t EXCEPT !.started = TRUE, !.running = TRUE]
    ELSE [t EXCEPT !.started = TRUE]

\* Mutant: Cancel() flips the stop flag.
TCancel_Toggle(t) == [t EXCEPT !.stop = ~@]

\* Cancel(): sets the stop flag; it does not wait for the send loop.
TCancel(t) == [t EXCEPT !.stop = TRUE]

\* Mutant: Wait() returns without waiting for the send loop.
TWaitCanReturn_NoBlock(t) == TRUE

\* Wait() returns once the send loop has drained.
TWaitCanReturn(t) == ~t.running

\* The errors Wait() can return: the streaming transactor's terminal error
\* or nil; the HTTP transactor returns httpClient.Close(), which is nil.
TWaitErrors(t) == IF t.kind = "ws" THEN {TRUE, FALSE} ELSE {FALSE}

GetTxCount(t) == t.txCount
GetTxBytes(t) == t.txBytes
\* GetTxRate(): the HTTP-backed transactor returns its txRate field, which
\* nothing writes; the streaming one is asked, here transactions per unit
\* of time.
GetTxRate(t) == IF t.kind = "ws" THEN t.txCount ELSE 0

\* ========================================================== orchestrator
N == Len(req.endpoints)

NoRet == [kind |-> "none", code |-> "", resp |-> [TotalTxs |-> 0, TotalBytes |-> 0],
          errs |-> {}]

Log(op, t) == calls' = Append(calls, [op |-> op, t |-> t])
Log2(op1, op2, t) ==
    calls' = calls \o <<[op |-> op1, t |-> t], [op |-> op2, t |-> t]>>

\* The requests with at most n endpoints whose numeric fields are drawn
\* from the given sets.
Requests(n, sizes, numbers, flags) ==
    [endpoints : UNION {[1..k -> RunSchemes] : k \in 0..n},
     clientFactory : {"", "factory"},
     txSize : sizes, rate : numbers, duration : numbers, connections : numbers,
     enumsOk : flags]

\* The requests of a run whose configuration is a valid one.
RunRequests == Requests(MaxEndpoints, {MinTxSize}, {1}, {TRUE})

\* Requests of every kind: zero rates, durations and connection counts, a
\* transaction size below the minimum, enum values that do not map.
AnyRequests == Requests(MaxEndpoints, {MinTxSize - 1, MinTxSize}, {0, 1}, BOOLEAN)

InitOrchWith(requests) ==
    /\ req \in requests
    /\ pc = "idle"
    /\ idx = 0
    /\ transactors = <<>>
    /\ tr = [i \in 1..MaxEndpoints |-> NoTransport]
    /\ totals = [txCount |-> 0, txBytes |-> 0]
    /\ ret = NoRet
    /\ timer = "off"
    /\ ctxDone = FALSE
    /\ phaseEnd = "none"
    /\ calls = <<>>

InitOrch == InitOrchWith(RunRequests)

\* Mutant: a request without endpoints is let through.
RejectEmpty_Never(request) == FALSE

\* if len(req.Endpoints) == 0 { return nil, InvalidArgument }
RejectEmpty(request) == Len(request.endpoints) = 0

\* buildHybridConfig: the two enum fields are mapped, which fails for a value
\* that has no mapping; every other field is copied as it is.
buildHybridConfig(request) == request.enumsOk

\* validateClientFactory: the name must not be blank.
validateClientFactory(request) == request.clientFactory # ""

\* RunLoadtest: the request's checks, then runHybridLoadTest.
RunLoadtest ==
    /\ pc = "idle"
    /\ IF \/ RejectEmpty(req)
          \/ ~buildHybridConfig(req)
          \/ ~validateClientFactory(req)
          THEN /\ ret' = [NoRet EXCEPT !.kind = "error", !.code = "InvalidArgument"]
               /\ pc' = "done"
               /\ idx' = idx
          ELSE /\ pc' = "create"
               /\ idx' = 1
               /\ ret' = ret
    /\ UNCHANGED <<auxVars, cbVars, req, transactors, tr, totals, timer, ctxDone, phaseEnd, calls>>

\* Mutant: a transactor is started as soon as it is created.
CreateOk_StartsAtOnce ==
    /\ pc = "create"
    /\ idx <= N
    /\ \E out \in CreateTransactor(req.endpoints[idx]) :
          /\ out.ok
          /\ tr' = [tr EXCEPT ![idx] =
                      TStart(SetProgressCallback(NewTransport(out.kind), idx - 1,
                                                 ProgressIntervalSec))]
    /\ transactors' = Append(transactors, idx)
    /\ calls' = calls \o <<[op |-> "Create", t |-> idx],
                           [op |-> "SetProgressCallback", t |-> idx],
                           [op |-> "Start", t |-> idx]>>
    /\ idx' = IF idx = N THEN 1 ELSE idx + 1
    /\ pc' = IF idx = N THEN "start" ELSE "create"
    /\ UNCHANGED <<auxVars, cbVars, req, totals, ret, timer, ctxDone, phaseEnd>>

\* One iteration of the creation loop in which CreateTransactor succeeds:
\* the progress callback is set and the transactor appended.
CreateOk ==
    /\ pc = "create"
    /\ idx <= N
    /\ \E out \in CreateTransactor(req.endpoints[idx]) :
          /\ out.ok
          /\ tr' = [tr EXCEPT ![idx] =
                      SetProgressCallback(NewTransport(out.kind), idx - 1,
                                          ProgressIntervalSec)]
    /\ transactors' = Append(transactors, idx)
    /\ Log2("Create", "SetProgressCallback", idx)
    /\ idx' = IF idx = N THEN 1 ELSE idx + 1
    /\ pc' = IF idx = N THEN "start" ELSE "create"
    /\ UNCHANGED <<auxVars, cbVars, req, totals, ret, timer, ctxDone, phaseEnd>>

\* Mutant: the creation error is returned without the clean-up loop.
CreateFail_NoCleanup ==
    /\ pc = "create"
    /\ idx <= N
    /\ \E out \in CreateTransactor(req.endpoints[idx]) : ~out.ok
    /\ Log("CreateFailed", idx)
    /\ ret' = [NoRet EXCEPT !.kind = "error", !.code = "Internal"]
    /\ pc' = "done"
    /\ UNCHANGED <<auxVars, cbVars, req, idx, transactors, tr, totals, timer, ctxDone, phaseEnd>>

\* One iteration of the creation loop in which CreateTransactor fails: the
\* clean-up loop over the transactors created so far begins.
CreateFail ==
    /\ pc = "create"
    /\ idx <= N
    /\ \E out \in CreateTransactor(req.endpoints[idx]) : ~out.ok
    /\ Log("CreateFailed", idx)
    /\ pc' = "cleanup_cancel"
    /\ idx' = 1
    /\ UNCHANGED <<auxVars, cbVars, req, transactors, tr, totals, ret, timer, ctxDone, phaseEnd>>

CleanupCancel ==
    /\ pc = "cleanup_cancel"
    /\ idx <= Len(transactors)
    /\ tr' = [tr EXCEPT ![transactors[idx]] = TCancel(@)]
    /\ Log("Cancel", transactors[idx])
    /\ pc' = "cleanup_wait"
    /\ UNCHANGED <<auxVars, cbVars, req, idx, transactors, totals, ret, timer, ctxDone, phaseEnd>>

\* t.Wait() of the clean-up loop; its error is ignored.
CleanupWait ==
    /\ pc = "cleanup_wait"
    /\ TWaitCanReturn(tr[transactors[idx]])
    /\ Log2("Wait", "WaitRet", transactors[idx])
    /\ idx' = idx + 1
    /\ pc' = "cleanup_cancel"
    /\ UNCHANGED <<auxVars, cbVars, req, transactors, tr, totals, ret, timer, ctxDone, phaseEnd>>

\* The clean-up loop is over: return nil and the creation error.
CleanupReturn ==
    /\ pc = "cleanup_cancel"
    /\ idx > Len(transactors)
    /\ ret' = [NoRet EXCEPT !.kind = "error", !.code = "Internal"]
    /\ pc' = "done"
    /\ UNCHANGED <<auxVars, cbVars, req, idx, transactors, tr, totals, timer, ctxDone, phaseEnd, calls>>

\* One iteration of "Start all transactors".
StartStep ==
    /\ pc = "start"
    /\ idx <= Len(transactors)
    /\ tr' = [tr EXCEPT ![transactors[idx]] = TStart(@)]
    /\ Log("Start", transactors[idx])
    /\ idx' = idx + 1
    /\ UNCHANGED <<auxVars, cbVars, req, pc, transactors, totals, ret, timer, ctxDone, phaseEnd>>

\* Mutant: the timer is armed while the start loop is still running.
ArmTimer_Early ==
    /\ pc = "start"
    /\ timer' = "armed"
    /\ pc' = "select"
    /\ UNCHANGED <<auxVars, cbVars, req, idx, transactors, tr, totals, ret, ctxDone, phaseEnd, calls>>

\* time.After(testDuration): the timer is armed when the select is entered.
ArmTimer ==
    /\ pc = "start"
    /\ idx > Len(transactors)
    /\ timer' = "armed"
    /\ pc' = "select"
    /\ UNCHANGED <<auxVars, cbVars, req, idx, transactors, tr, totals, ret, ctxDone, phaseEnd, calls>>

\* Mutant: the select does not wait for either channel.
SelectReady_Always(branch) == TRUE

\* The select's guard: a branch can be taken once its channel is ready.
SelectReady(branch) ==
    IF branch = "timer" THEN timer = "fired" ELSE ctxDone

\* select { case <-time.After(testDuration): case <-ctx.Done(): }
Select ==
    /\ pc = "select"
    /\ \E branch \in {"timer", "ctx"} :
          /\ SelectReady(branch)
          /\ phaseEnd' = branch
    /\ pc' = "stop_cancel"
    /\ idx' = 1
    /\ UNCHANGED <<auxVars, cbVars, req, transactors, tr, totals, ret, timer, ctxDone, calls>>

\* Mutant: the stop loop goes to Wait() without calling Cancel().
StopCancel_Skip ==
    /\ pc = "stop_cancel"
    /\ idx <= Len(transactors)
    /\ pc' = "stop_wait"
    /\ UNCHANGED <<auxVars, cbVars, req, idx, transactors, tr, totals, ret, timer, ctxDone,
                   phaseEnd, calls>>

\* transactor.Cancel() of the stop loop.
StopCancel ==
    /\ pc = "stop_cancel"
    /\ idx <= Len(transactors)
    /\ tr' = [tr EXCEPT ![transactors[idx]] = TCancel(@)]
    /\ Log("Cancel", transactors[idx])
    /\ pc' = "stop_wait"
    /\ UNCHANGED <<auxVars, cbVars, req, idx, transactors, totals, ret, timer, ctxDone, phaseEnd>>

\* transactor.Wait() is called and blocks.
StopWaitCall ==
    /\ pc = "stop_wait"
    /\ Log("Wait", transactors[idx])
    /\ pc' = "stop_waiting"
    /\ UNCHANGED <<auxVars, cbVars, req, idx, transactors, tr, totals, ret, timer, ctxDone, phaseEnd>>

\* Mutant: a Wait() error ends the stop loop and is returned at once.
AfterWait_Abort(err) ==
    /\ Log(IF err THEN "WaitRetErr" ELSE "WaitRet", transactors[idx])
    /\ pc' = IF err THEN "done" ELSE "stop_stats"
    /\ ret' = IF err THEN [NoRet EXCEPT !.kind = "error", !.code = "Internal"] ELSE ret
    /\ UNCHANGED <<auxVars, cbVars, req, idx, transactors, tr, totals, timer, ctxDone, phaseEnd>>

\* What the orchestrator does with the error Wait() returned: it logs it
\* and goes on to read the stats.
AfterWait(err) ==
    /\ Log(IF err THEN "WaitRetErr" ELSE "WaitRet", transactors[idx])
    /\ pc' = "stop_stats"
    /\ UNCHANGED <<auxVars, cbVars, req, idx, transactors, tr, totals, ret, timer, ctxDone, phaseEnd>>

\* transactor.Wait() returns, with an error or nil.
StopWaitRet ==
    /\ pc = "stop_waiting"
    /\ TWaitCanReturn(tr[transactors[idx]])
    /\ \E err \in TWaitErrors(tr[transactors[idx]]) : AfterWait(err)

\* GetTxCount / GetTxBytes and the running totals.
StopStats ==
    /\ pc = "stop_stats"
    /\ totals' = [txCount |-> totals.txCount + GetTxCount(tr[transactors[idx]]),
                  txBytes |-> totals.txBytes + GetTxBytes(tr[transactors[idx]])]
    /\ Log("GetStats", transactors[idx])
    /\ idx' = idx + 1
    /\ pc' = "stop_cancel"
    /\ UNCHANGED <<auxVars, cbVars, req, transactors, tr, ret, timer, ctxDone, phaseEnd>>

\* The error runHybridLoadTest returns with its response: always nil.
ReturnedErrors == {}

\* Build the response and return it.
BuildResponse ==
    /\ pc = "stop_cancel"
    /\ idx > Len(transactors)
    /\ ret' = [kind |-> "response", code |-> "OK",
               resp |-> [TotalTxs |-> totals.txCount, TotalBytes |-> totals.txBytes],
               errs |-> ReturnedErrors]
    /\ pc' = "done"
    /\ UNCHANGED <<auxVars, cbVars, req, idx, transactors, tr, totals, timer, ctxDone, phaseEnd, calls>>

\* ------------------------------------------------ orchestrator environment
\* A streaming transport's send loop sends one transaction.
TransportSend ==
    /\ \E i \in 1..MaxEndpoints :
          /\ tr[i].running
          /\ tr[i].txCount < MaxTx
          /\ tr' = [tr EXCEPT ![i].txCount = @ + 1, ![i].txBytes = @ + req.txSize]
    /\ UNCHANGED <<auxVars, cbVars, req, pc, idx, transactors, totals, ret, timer, ctxDone, phaseEnd, calls>>

\* A send loop ends: after Cancel(), or by itself (count reached, failure).
TransportDrain ==
    /\ \E i \in 1..MaxEndpoints :
          /\ tr[i].running
          /\ tr' = [tr EXCEPT ![i].running = FALSE]
    /\ UNCHANGED <<auxVars, cbVars, req, pc, idx, transactors, totals, ret, timer, ctxDone, phaseEnd, calls>>

\* The duration timer fires.
TimerFire ==
    /\ timer = "armed"
    /\ pc = "select"
    /\ timer' = "fired"
    /\ UNCHANGED <<auxVars, cbVars, req, pc, idx, transactors, tr, totals, ret, ctxDone, phaseEnd, calls>>

\* The caller cancels the context of the call.
CallerCancel ==
    /\ ~ctxDone
    /\ pc \notin {"idle", "done"}
    /\ phaseEnd = "none"
    /\ ctxDone' = TRUE
    /\ UNCHANGED <<auxVars, cbVars, req, pc, idx, transactors, tr, totals, ret, timer, phaseEnd, calls>>

\* The circuit breaker is not part of an orchestrator run.
CBIdle ==
    /\ cb = [maxFailures |-> 0, resetTimeout |-> 0, failureCount |-> 0,
             lastFailureTime |-> 0, state |-> "Closed"]
    /\ now = 0
    /\ gpc = <<>>
    /\ trial = <<>>
    /\ obs = <<>>

\* The recovery helpers and the stand-alone factory are not part of a run.
\* Every part but the named one is not in use.
AuxIdleBut(part) ==
    /\ IF part = "rc" THEN TRUE ELSE rc = <<>>
    /\ IF part = "fa" THEN TRUE ELSE fa = <<>>
    /\ IF part = "ec" THEN TRUE ELSE ec = <<>>
    /\ IF part = "er" THEN TRUE ELSE er = <<>>
    /\ IF part = "ht" THEN TRUE ELSE ht = <<>>
    /\ IF part = "hc" THEN TRUE ELSE hc = <<>>
    /\ IF part = "cli" THEN TRUE ELSE cli = <<>>

AuxIdle == AuxIdleBut("")

Init == InitOrch /\ CBIdle /\ AuxIdle

Next ==
    \/ RunLoadtest
    \/ CreateOk
    \/ CreateFail
    \/ CleanupCancel
    \/ CleanupWait
    \/ CleanupReturn
    \/ StartStep
    \/ ArmTimer
    \/ Select
    \/ StopCancel
    \/ StopWaitCall
    \/ StopWaitRet
    \/ StopStats
    \/ BuildResponse
    \/ TransportSend
    \/ TransportDrain
    \/ TimerFire
    \/ CallerCancel

Spec == Init /\ [][Next]_vars

\* The same run started with a request of any kind.
InitAny == InitOrchWith(AnyRequests) /\ CBIdle /\ AuxIdle
SpecAny == InitAny /\ [][Next]_vars

\* The steps of RunLoadtest itself, as opposed to those of the transports,
\* the timer and the caller.
OrchStep ==
    \/ RunLoadtest
    \/ CreateOk
    \/ CreateFail
    \/ CleanupCancel
    \/ CleanupWait
    \/ CleanupReturn
    \/ StartStep
    \/ ArmTimer
    \/ Select
    \/ StopCancel
    \/ StopWaitCall
    \/ StopWaitRet
    \/ StopStats
    \/ BuildResponse

\* The send loop of a transport that has been cancelled ends.
DrainCancelled ==
    /\ TransportDrain
    /\ \E i \in 1..MaxEndpoints : tr[i].stop /\ tr[i].running /\ ~tr'[i].running

\* RunLoadtest is sequential code that takes the step it can take, and a
\* transport honours Cancel(): its send loop ends once the stop flag is set.
SpecLive == Spec /\ WF_vars(OrchStep) /\ WF_vars(DrainCancelled)

\* ======================================================= circuit breaker
\* The zero time.Time of a new breaker's lastFailureTime: so long ago that
\* time.Since of it exceeds every resetTimeout.
ZeroTime == 0 - (MaxTime + MaxResetTimeout + 1)

\* NewCircuitBreaker(maxFailures, resetTimeout, log)
NewCircuitBreaker(maxFailures, resetTimeout) ==
    [maxFailures |-> maxFailures, resetTimeout |-> resetTimeout,
     failureCount |-> 0, lastFailureTime |-> ZeroTime, state |-> "Closed"]

\* time.Since(t) at clock value clock.
Since(t, clock) == clock - t

\* Mutant: a rejected call counts as a failure at the time of the call.
ExecuteGate_RejectTouches(b, clock) ==
    IF b.state = "Open"
    THEN IF Since(b.lastFailureTime, clock) > b.resetTimeout
         THEN [cb |-> [b EXCEPT !.state = "HalfOpen"], admit |-> TRUE]
         ELSE [cb |-> [b EXCEPT !.lastFailureTime = clock], admit |-> FALSE]
    ELSE [cb |-> b, admit |-> TRUE]

\* The head of Execute: whether the call is let through to fn, and the
\* breaker it leaves.
ExecuteGate(b, clock) ==
    IF b.state = "Open"
    THEN IF Since(b.lastFailureTime, clock) > b.resetTimeout
         THEN [cb |-> [b EXCEPT !.state = "HalfOpen"], admit |-> TRUE]
         ELSE [cb |-> b, admit |-> FALSE]
    ELSE [cb |-> b, admit |-> TRUE]

\* Mutant: the breaker opens one failure late.
onFailure_OffByOne(b, clock) ==
    LET c == [b EXCEPT !.failureCount = @ + 1, !.lastFailureTime = clock]
    IN  IF c.failureCount > c.maxFailures THEN [c EXCEPT !.state = "Open"] ELSE c

\* onFailure, at clock value clock.
onFailure(b, clock) ==
    LET c == [b EXCEPT !.failureCount = @ + 1, !.lastFailureTime = clock]
    IN  IF c.failureCount >= c.maxFailures THEN [c EXCEPT !.state = "Open"] ELSE c

\* Mutant: a success closes the breaker and keeps the failure count.
onSuccess_KeepCount(b) ==
    IF b.state = "HalfOpen" THEN [b EXCEPT !.state = "Closed"] ELSE b

\* onSuccess
onSuccess(b) ==
    LET c == [b EXCEPT !.failureCount = 0]
    IN  IF c.state = "HalfOpen" THEN [c EXCEPT !.state = "Closed"] ELSE c

\* Mutant: Reset closes the breaker and keeps the failure count.
Reset_KeepCount(b) == [b EXCEPT !.state = "Closed"]

\* Reset
Reset(b) == [b EXCEPT !.state = "Closed", !.failureCount = 0]

\* What the callers have seen so far: the calls issued, let through to fn
\* and rejected, the number of failing calls in a row, the time of the last
\* failing call, the outcome of the last completed operation, and whether a
\* success came between two failing calls.
NoObs ==
    [issued |-> 0, invoked |-> 0, rejected |-> 0, consecFails |-> 0,
     lastFailAt |-> ZeroTime, last |-> "none", trialOk |-> 0, trialFail |-> 0,
     failed |-> FALSE, okAfterFail |-> FALSE, failOkFail |-> FALSE]

OrchIdle ==
    /\ req = [endpoints |-> <<>>, clientFactory |-> "", txSize |-> 0, rate |-> 0,
              duration |-> 0, connections |-> 0, enumsOk |-> FALSE]
    /\ pc = "off"
    /\ idx = 0
    /\ transactors = <<>>
    /\ tr = [i \in 1..MaxEndpoints |-> NoTransport]
    /\ totals = [txCount |-> 0, txBytes |-> 0]
    /\ ret = NoRet
    /\ timer = "off"
    /\ ctxDone = FALSE
    /\ phaseEnd = "none"
    /\ calls = <<>>

InitBreaker(goroutines) ==
    /\ OrchIdle
    /\ AuxIdle
    /\ \E mf \in 1..MaxMaxFailures, rt \in 0..MaxResetTimeout :
          cb = NewCircuitBreaker(mf, rt)
    /\ now = 0
    /\ gpc = [g \in 1..goroutines |-> "idle"]
    /\ trial = [g \in 1..goroutines |-> FALSE]
    /\ obs = NoObs

\* A goroutine calls Execute: the gate either rejects the call with the
\* circuit-open error or lets it through to fn.
ExecuteEnter ==
    /\ obs.issued < MaxFnCalls
    /\ \E g \in DOMAIN gpc :
          /\ gpc[g] = "idle"
          /\ LET r == ExecuteGate(cb, now) IN
                /\ cb' = r.cb
                /\ gpc' = [gpc EXCEPT ![g] = IF r.admit THEN "infn" ELSE "idle"]
                /\ trial' = [trial EXCEPT ![g] = r.admit /\ r.cb.state = "HalfOpen"]
                /\ obs' = [obs EXCEPT !.issued = @ + 1,
                                      !.invoked = IF r.admit THEN @ + 1 ELSE @,
                                      !.rejected = IF r.admit THEN @ ELSE @ + 1,
                                      !.last = IF r.admit THEN "entered" ELSE "rejected"]
    /\ UNCHANGED <<auxVars, orchVars, now>>

\* fn returns an error: onFailure, and Execute returns the error.
ExecuteFail ==
    /\ \E g \in DOMAIN gpc :
          /\ gpc[g] = "infn"
          /\ cb' = onFailure(cb, now)
          /\ gpc' = [gpc EXCEPT ![g] = "idle"]
          /\ trial' = [trial EXCEPT ![g] = FALSE]
          /\ obs' = [obs EXCEPT !.consecFails = @ + 1, !.lastFailAt = now,
                                !.last = "fail",
                                !.trialFail = IF trial[g] THEN @ + 1 ELSE @,
                                !.failed = TRUE,
                                !.failOkFail = @ \/ obs.okAfterFail]
    /\ UNCHANGED <<auxVars, orchVars, now>>

\* fn returns nil: onSuccess, and Execute returns nil.
ExecuteOk ==
    /\ \E g \in DOMAIN gpc :
          /\ gpc[g] = "infn"
          /\ cb' = onSuccess(cb)
          /\ gpc' = [gpc EXCEPT ![g] = "idle"]
          /\ trial' = [trial EXCEPT ![g] = FALSE]
          /\ obs' = [obs EXCEPT !.consecFails = 0, !.last = "ok",
                                !.trialOk = IF trial[g] THEN @ + 1 ELSE @,
                                !.okAfterFail = @ \/ obs.failed]
    /\ UNCHANGED <<auxVars, orchVars, now>>

\* fn panics: Execute has no deferred call, so the panic unwinds through it
\* and neither onFailure nor onSuccess runs.
ExecutePanic ==
    /\ \E g \in DOMAIN gpc :
          /\ gpc[g] = "infn"
          /\ gpc' = [gpc EXCEPT ![g] = "idle"]
          /\ trial' = [trial EXCEPT ![g] = FALSE]
          /\ obs' = [obs EXCEPT !.last = "panic"]
    /\ UNCHANGED <<auxVars, orchVars, cb, now>>

\* A goroutine calls Reset.
ResetCall ==
    /\ \E g \in DOMAIN gpc : gpc[g] = "idle"
    /\ cb' = Reset(cb)
    /\ obs' = [obs EXCEPT !.consecFails = 0, !.last = "reset"]
    /\ UNCHANGED <<auxVars, orchVars, now, gpc, trial>>

\* Time passes.
Tick ==
    /\ now < MaxTime
    /\ now' = now + 1
    /\ UNCHANGED <<auxVars, orchVars, cb, gpc, trial, obs>>

NextCB ==
    \/ ExecuteEnter
    \/ ExecuteFail
    \/ ExecuteOk
    \/ ExecutePanic
    \/ ResetCall
    \/ Tick

\* One caller at a time.
InitCB == InitBreaker(1)
SpecCB == InitCB /\ [][NextCB]_vars

\* Several goroutines share the breaker.
InitCBC == InitBreaker(NumGoroutines)
SpecCBC == InitCBC /\ [][NextCB]_vars

\* ============================================ panic wrappers and retries
\* The errors of package errors, by their ErrorType; "plain" is an error that
\* is not a *LoadTestError (a wrapped LoadTestError included), "nil" is nil.
ErrorTypes ==
    {"CONFIG", "VALIDATION", "PROFILE", "NETWORK", "ENDPOINT", "CONNECTION",
     "TIMEOUT", "LOADTEST", "TRANSACTION", "CLIENT_FACTORY", "BROADCAST",
     "FILESYSTEM", "PERMISSION", "SERIALIZATION", "INTERNAL", "UNKNOWN"}

NilErr == [type |-> "nil", msg |-> "", panic_value |-> ""]
NewError(errorType, msg) == [type |-> errorType, msg |-> msg, panic_value |-> ""]

\* Mutant: a LoadTestError of a type the switch does not name is recoverable.
IsRecoverable_DefaultTrue(err) ==
    err.type \in ErrorTypes \ {"VALIDATION", "CONFIG", "PERMISSION"}

\* errors.IsRecoverable
IsRecoverable(err) == err.type \in {"TIMEOUT", "CONNECTION", "NETWORK"}

\* The values a function can panic with, by the case of handlePanic's type
\* switch they fall in.
PanicValues == {"error", "string", "other"}

\* handlePanic: the panic value becomes an Internal LoadTestError whose
\* message depends on the value's type and whose context holds the value.
handlePanic(rec) ==
    [type |-> "INTERNAL",
     msg |-> CASE rec = "error" -> "v.Error()"
               [] rec = "string" -> "v"
               [] OTHER -> "panic: %v",
     panic_value |-> rec]

Helpers ==
    {"ExponentialBackoffRetry", "SafeExecuteWithRetry", "SafeExecute", "SafeGo",
     "SafeGoWithContext"}
RetryHelpers == {"ExponentialBackoffRetry", "SafeExecuteWithRetry"}
GoHelpers == {"SafeGo", "SafeGoWithContext"}

\* BackoffFactor in tenths: 0.5, 1.0, 1.5, 2.0.
Factors10 == {5, 10, 15, 20}

DefaultRetryConfig ==
    [isNil |-> FALSE, MaxRetries |-> 3, InitialDelay |-> 1 * Second,
     MaxDelay |-> 30 * Second, BackoffFactor10 |-> 20]

\* A nil *RetryConfig.
NilConfig ==
    [isNil |-> TRUE, MaxRetries |-> 0, InitialDelay |-> 0, MaxDelay |-> 0,
     BackoffFactor10 |-> 0]

RetryConfigs ==
    [isNil : {FALSE}, MaxRetries : (0 - 1)..MaxRetriesBound,
     InitialDelay : 0..MaxDelayBound, MaxDelay : 0..MaxDelayBound,
     BackoffFactor10 : Factors10]

\* SafeExecuteWithRetry(fn, maxRetries, delay) has no MaxDelay and no factor.
FixedDelayConfigs ==
    [isNil : {FALSE}, MaxRetries : (0 - 1)..MaxRetriesBound,
     InitialDelay : 0..MaxDelayBound, MaxDelay : {0}, BackoffFactor10 : {10}]

\* if config == nil { config = DefaultRetryConfig() }
EffectiveConfig(config) == IF config.isNil THEN DefaultRetryConfig ELSE config

\* time.Duration(float64(delay) * config.BackoffFactor), capped at MaxDelay.
NextDelay(delay, config) ==
    LET d == (delay * config.BackoffFactor10) \div 10
    IN  IF d > config.MaxDelay THEN config.MaxDelay ELSE d

\* The functions handed to the helpers, by what their invocations can do:
\* always fail with an error that is not recoverable, always fail with a
\* recoverable one, or anything (return nil, return an error, panic).
FnKinds == {"nonretriable", "retriable", "any"}
FnErrors == {"TIMEOUT", "VALIDATION", "plain"}
FnReturns(fn) ==
    CASE fn = "nonretriable" ->
            {e \in {NewError(t, "fn") : t \in FnErrors} : ~IsRecoverable(e)}
      [] fn = "retriable" ->
            {e \in {NewError(t, "fn") : t \in FnErrors} : IsRecoverable(e)}
      [] OTHER -> {NilErr} \cup {NewError(t, "fn") : t \in FnErrors}
FnPanics(fn) == IF fn = "any" THEN PanicValues ELSE {}

\* How many calls lie between the deferred function and recover(): the
\* goroutine wrappers defer r.RecoverWithCallback, which calls recover()
\* itself, and SafeExecute defers a closure that calls recover() itself.
\* A deferred closure that calls the package's Recover() reaches recover()
\* through Recover() and RecoverWithError().
DeferDepth_Nested(helper) == 2

DeferDepth(helper) == IF helper = "Recover" THEN 3 ELSE 1

\* Go's rule: recover() stops a panic only when the deferred function calls
\* it directly.
RecoverStops(depth) == depth = 1

\* What SafeExecute returns after its deferred closure recovered a panic:
\* the result is unnamed and the closure assigns nothing, so the zero value.
SafeExecuteAfterPanic(converted) == NilErr

\* Mutant: the retry loop sleeps after the last attempt as well.
ShouldSleep_Always(attempt, maxRetries) == TRUE

\* if attempt < maxRetries { time.Sleep(delay) ... }
ShouldSleep(attempt, maxRetries) == attempt < maxRetries

NoHelperCall(helper, fn, config) ==
    [helper |-> helper, fn |-> fn, config |-> config, pc |-> "call",
     attempt |-> 0, delay |-> 0, lastErr |-> NilErr, err |-> NilErr,
     pval |-> "", logged |-> NilErr, outs |-> <<>>, sleeps |-> <<>>,
     result |-> NilErr, crashed |-> FALSE]

InitRec ==
    /\ OrchIdle
    /\ CBIdle
    /\ AuxIdleBut("rc")
    /\ \E helper \in Helpers :
          \E fn \in (IF helper \in GoHelpers THEN {"any"} ELSE FnKinds),
             config \in
                (CASE helper = "ExponentialBackoffRetry" -> RetryConfigs \cup {NilConfig}
                   [] helper = "SafeExecuteWithRetry" -> FixedDelayConfigs
                   [] OTHER -> {NilConfig}) :
             rc = NoHelperCall(helper, fn, config)

\* The helper is called: the retry helpers set up their loop, SafeExecute
\* and the goroutine started by SafeGo go on to call fn.
HelperCall ==
    /\ rc.pc = "call"
    /\ rc' = IF rc.helper \in RetryHelpers
             THEN [rc EXCEPT !.config = EffectiveConfig(@),
                             !.delay = EffectiveConfig(rc.config).InitialDelay,
                             !.pc = "loop"]
             ELSE [rc EXCEPT !.pc = "exec"]
    /\ UNCHANGED recOthers

\* for attempt := 0; attempt <= maxRetries: the body is entered.
LoopEnter ==
    /\ rc.pc = "loop"
    /\ rc.attempt <= rc.config.MaxRetries
    /\ rc' = [rc EXCEPT !.pc = "exec"]
    /\ UNCHANGED recOthers

\* The loop is over: return lastErr.
LoopExit ==
    /\ rc.pc = "loop"
    /\ rc.attempt > rc.config.MaxRetries
    /\ rc' = [rc EXCEPT !.pc = "done", !.result = rc.lastErr]
    /\ UNCHANGED recOthers

\* fn is invoked and returns: nil or an error, or nothing at all for the
\* func() of the goroutine wrappers.
FnReturn ==
    /\ rc.pc = "exec"
    /\ \E e \in (IF rc.helper \in GoHelpers THEN {NilErr} ELSE FnReturns(rc.fn)) :
          rc' = [rc EXCEPT !.outs = Append(@, e), !.err = e, !.pc = "after"]
    /\ UNCHANGED recOthers

\* fn is invoked and panics.
FnPanic ==
    /\ rc.pc = "exec"
    /\ \E v \in FnPanics(rc.fn) :
          rc' = [rc EXCEPT !.outs = Append(@, handlePanic(v)), !.pval = v,
                           !.pc = "panicking"]
    /\ UNCHANGED recOthers

\* The wrapper's deferred function runs while fn's panic unwinds.  When its
\* recover() stops the panic, the converted error is logged; the goroutine
\* of SafeGo then ends and SafeExecute returns.  Otherwise the panic leaves
\* the wrapper and the process dies.
DeferredRecover ==
    /\ rc.pc = "panicking"
    /\ rc' = IF RecoverStops(DeferDepth(rc.helper))
             THEN [rc EXCEPT !.logged = handlePanic(rc.pval),
                             !.err = IF rc.helper \in GoHelpers THEN @
                                     ELSE SafeExecuteAfterPanic(handlePanic(rc.pval)),
                             !.pc = "after"]
             ELSE [rc EXCEPT !.crashed = TRUE, !.pc = "crashed"]
    /\ UNCHANGED recOthers

\* SafeExecute returned err to the retry loop.
AfterExecute ==
    /\ rc.pc = "after"
    /\ rc.helper \in RetryHelpers
    /\ rc' = IF rc.err = NilErr
                THEN [rc EXCEPT !.pc = "done", !.result = NilErr]
             ELSE IF ~IsRecoverable(rc.err)
                THEN [rc EXCEPT !.lastErr = rc.err, !.pc = "done", !.result = rc.err]
             ELSE IF ShouldSleep(rc.attempt, rc.config.MaxRetries)
                THEN [rc EXCEPT !.lastErr = rc.err, !.pc = "sleep"]
             ELSE [rc EXCEPT !.lastErr = rc.err, !.attempt = @ + 1, !.pc = "loop"]
    /\ UNCHANGED recOthers

\* time.Sleep(delay), and in ExponentialBackoffRetry the next delay.
Sleep ==
    /\ rc.pc = "sleep"
    /\ rc' = [rc EXCEPT !.sleeps = Append(@, rc.delay),
                        !.delay = IF rc.helper = "ExponentialBackoffRetry"
                                  THEN NextDelay(@, rc.config) ELSE @,
                        !.attempt = @ + 1,
                        !.pc = "loop"]
    /\ UNCHANGED recOthers

\* SafeExecute returns to its caller; the goroutine of SafeGo ends.
WrapperReturn ==
    /\ rc.pc = "after"
    /\ rc.helper \notin RetryHelpers
    /\ rc' = [rc EXCEPT !.pc = "done",
                        !.result = IF rc.helper \in GoHelpers THEN NilErr ELSE rc.err]
    /\ UNCHANGED recOthers

NextRec ==
    \/ HelperCall
    \/ LoopEnter
    \/ LoopExit
    \/ FnReturn
    \/ FnPanic
    \/ DeferredRecover
    \/ AfterExecute
    \/ Sleep
    \/ WrapperReturn

SpecRec == InitRec /\ [][NextRec]_vars

\* The helpers are sequential code and fn returns or panics: every step
\* that can be taken is taken.
SpecRecFair == SpecRec /\ WF_vars(NextRec)

\* ================================================= the factory on its own
\* CreateTransactor is called on each of a list of endpoints in turn.
InitFactory ==
    /\ OrchIdle
    /\ CBIdle
    /\ AuxIdleBut("fa")
    /\ \E eps \in UNION {[1..n -> Schemes] : n \in 0..MaxFactoryCalls} :
          fa = [endpoints |-> eps, results |-> <<>>]

\* A call of CreateTransactor that returns a transactor.
FactoryCreateOk ==
    /\ Len(fa.results) < Len(fa.endpoints)
    /\ \E out \in CreateTransactor(fa.endpoints[Len(fa.results) + 1]) :
          /\ out.ok
          /\ fa' = [fa EXCEPT !.results = Append(@, out)]
    /\ UNCHANGED faOthers

\* A call of CreateTransactor that returns an error.
FactoryCreateErr ==
    /\ Len(fa.results) < Len(fa.endpoints)
    /\ \E out \in CreateTransactor(fa.endpoints[Len(fa.results) + 1]) :
          /\ ~out.ok
          /\ fa' = [fa EXCEPT !.results = Append(@, out)]
    /\ UNCHANGED faOthers

NextFactory ==
    \/ FactoryCreateOk
    \/ FactoryCreateErr

SpecFactory == InitFactory /\ [][NextFactory]_vars

\* ======================================================= error collector
\* The errors handed to an ErrorCollector; NilErr stands for a nil error.
CollectedErrors ==
    {NewError("NETWORK", "a"), NewError("VALIDATION", "b"), NewError("plain", "c")}

\* Mutant: Add appends a nil error as well.
ECAdd_KeepNil(errors, err) == Append(errors, err)

\* Add: if err != nil { ec.errors = append(ec.errors, err) }
ECAdd(errors, err) == IF err # NilErr THEN Append(errors, err) ELSE errors

\* HasErrors
HasErrors(errors) == Len(errors) > 0

\* GetFirstError
GetFirstError(errors) == IF Len(errors) > 0 THEN errors[1] ELSE NilErr

\* MultiError.Error(): the message of a MultiError over errors.
MultiErrorMessage(errors) ==
    IF Len(errors) = 0 THEN [text |-> "no errors", n |-> 0]
    ELSE IF Len(errors) = 1 THEN [text |-> errors[1].msg, n |-> 0]
    ELSE [text |-> "multiple errors occurred: %d errors", n |-> Len(errors)]

\* ToMultiError: nil, the only error, or a MultiError over the errors.
ToMultiError(errors) ==
    IF Len(errors) = 0 THEN [kind |-> "nil", err |-> NilErr, errors |-> <<>>]
    ELSE IF Len(errors) = 1 THEN [kind |-> "error", err |-> errors[1], errors |-> <<>>]
    ELSE [kind |-> "multi", err |-> NilErr, errors |-> errors]

\* The capacity append gives a full slice of capacity cap.
GrownCap(cap) == IF cap = 0 THEN 1 ELSE 2 * cap

\* The backing array after append(errors, err) on a slice over array: the
\* element is written in place when the capacity allows, else a larger
\* array is allocated and the elements copied.
AppendArray(array, errors, err) ==
    IF Len(errors) < Len(array)
    THEN [array EXCEPT ![Len(errors) + 1] = err]
    ELSE [k \in 1..GrownCap(Len(array)) |->
             IF k <= Len(errors) THEN errors[k]
             ELSE IF k = Len(errors) + 1 THEN err ELSE NilErr]

\* No MultiError has been returned.
NoMultiError == [kind |-> "none", len |-> 0, array |-> <<>>, shared |-> FALSE,
                 atCall |-> <<>>]

\* MultiError.Errors(): the slice the MultiError holds.
Errors(me) == SubSeq(me.array, 1, me.len)

\* MultiError.Unwrap(): the first error or nil.
Unwrap(me) == IF me.len > 0 THEN me.array[1] ELSE NilErr

\* NewErrorCollector; errors is the slice ec.errors and array its backing
\* array; adds is the list of the arguments of the Add calls made since the
\* collector was new or cleared and n the number of all Add calls; me is the MultiError last returned by
\* ToMultiError, with the array its slice points to, whether that array is
\* still the collector's, and the errors collected when it was returned.
InitEC ==
    /\ OrchIdle
    /\ CBIdle
    /\ AuxIdleBut("ec")
    /\ ec = [errors |-> <<>>, adds |-> <<>>, array |-> <<>>, me |-> NoMultiError,
             n |-> 0]

\* A call of Add, with an error or with nil.
ECAddCall ==
    /\ ec.n < MaxAdds
    /\ \E err \in CollectedErrors \cup {NilErr} :
          LET errors == ECAdd(ec.errors, err)
              array == IF errors = ec.errors THEN ec.array
                       ELSE AppendArray(ec.array, ec.errors, err)
              inPlace == Len(array) = Len(ec.array)
          IN  ec' = [errors |-> errors, adds |-> Append(ec.adds, err),
                     array |-> array, n |-> ec.n + 1,
                     me |-> IF ~ec.me.shared THEN ec.me
                            ELSE IF inPlace THEN [ec.me EXCEPT !.array = array]
                            ELSE [ec.me EXCEPT !.shared = FALSE]]
    /\ UNCHANGED ecOthers

\* Clear: ec.errors = ec.errors[:0]
ECClear ==
    /\ ec.adds # <<>>
    /\ ec' = [ec EXCEPT !.errors = <<>>, !.adds = <<>>]
    /\ UNCHANGED ecOthers

\* ToMultiError(): for two errors or more, &MultiError{errors: ec.errors}.
ECToMultiError ==
    /\ ec.me.kind = "none"
    /\ ec' = [ec EXCEPT !.me =
                 IF ToMultiError(ec.errors).kind = "multi"
                 THEN [kind |-> "multi", len |-> Len(ec.errors), array |-> ec.array,
                       shared |-> TRUE, atCall |-> ec.errors]
                 ELSE [NoMultiError EXCEPT !.kind = ToMultiError(ec.errors).kind]]
    /\ UNCHANGED ecOthers

NextEC ==
    \/ ECAddCall
    \/ ECClear
    \/ ECToMultiError

SpecEC == InitEC /\ [][NextEC]_vars

\* ==================================================== error classification
\* The errors IsRecoverable is asked about: a LoadTestError of each type, an
\* error that is not a LoadTestError, and nil.
ClassifiedErrors ==
    {NewError(t, "m") : t \in ErrorTypes} \cup {NewError("plain", "m"), NilErr}

InitErr ==
    /\ OrchIdle
    /\ CBIdle
    /\ AuxIdleBut("er")
    /\ er = <<>>

\* A call of IsRecoverable.
Classify ==
    /\ Len(er) < MaxClassified
    /\ \E err \in ClassifiedErrors :
          er' = Append(er, [err |-> err, recoverable |-> IsRecoverable(err)])
    /\ UNCHANGED erOthers

NextErr ==
    \/ Classify

SpecErr == InitErr /\ [][NextErr]_vars

\* ============================================ a hybrid transactor on its own
\* An outcome of NewHybridTransactor: the error, or which of wsTransactor
\* and httpClient the transactor returned has set.
NewHybridResult(ok, kind, ws, http, err) ==
    [ok |-> ok, kind |-> kind, ws |-> ws, http |-> http, err |-> err]

\* Mutant: when the streaming constructor fails, the transactor built so far
\* is returned.
NewHybridTransactor_Partial(endpoint) ==
    IF endpoint = "%"
    THEN {NewHybridResult(FALSE, "none", FALSE, FALSE, "invalid endpoint URL")}
    ELSE IF endpoint \notin {"ws", "wss", "http", "https"}
    THEN {NewHybridResult(FALSE, "none", FALSE, FALSE, "unsupported protocol")}
    ELSE IF endpoint \in {"ws", "wss"}
    THEN {NewHybridResult(TRUE, "ws", TRUE, FALSE, ""),
          NewHybridResult(TRUE, "ws", FALSE, FALSE, "")}
    ELSE {NewHybridResult(TRUE, "http", FALSE, TRUE, "")}

\* NewHybridTransactor: the URL is parsed, the scheme checked, and the
\* backing implementation built; loadtest.NewTransactor dials and may fail,
\* NewHTTPRPCClient does not fail on an http(s) URL.
NewHybridTransactor(endpoint) ==
    IF endpoint = "%"
    THEN {NewHybridResult(FALSE, "none", FALSE, FALSE, "invalid endpoint URL")}
    ELSE IF endpoint \notin {"ws", "wss", "http", "https"}
    THEN {NewHybridResult(FALSE, "none", FALSE, FALSE, "unsupported protocol")}
    ELSE IF endpoint \in {"ws", "wss"}
    THEN {NewHybridResult(TRUE, "ws", TRUE, FALSE, ""),
          NewHybridResult(FALSE, "none", FALSE, FALSE,
                          "failed to create WebSocket transactor")}
    ELSE {NewHybridResult(TRUE, "http", FALSE, TRUE, "")}

InitHT ==
    /\ OrchIdle
    /\ CBIdle
    /\ AuxIdleBut("ht")
    /\ \E endpoint \in Schemes :
          ht = [endpoint |-> endpoint, pc |-> "new", t |-> NoTransport, ws |-> FALSE,
                http |-> FALSE, err |-> "", closed |-> FALSE, last |-> "none", n |-> 0,
                read |-> [txCount |-> 0, txBytes |-> 0, txRate |-> 0]]

\* NewHybridTransactor(remoteAddr, config)
HTNew ==
    /\ ht.pc = "new"
    /\ \E out \in NewHybridTransactor(ht.endpoint) :
          ht' = IF out.ok
                THEN [ht EXCEPT !.pc = "live",
                                !.t = [NewTransport(out.kind) EXCEPT
                                          !.cbInterval = ProgressIntervalSec],
                                !.ws = out.ws, !.http = out.http, !.last = "New"]
                ELSE [ht EXCEPT !.pc = "failed", !.err = out.err, !.last = "New"]
    /\ UNCHANGED htOthers

HTSetProgressCallback ==
    /\ ht.pc = "live"
    /\ ht.n < MaxHTCalls
    /\ \E id \in {0, 1} :
          ht' = [ht EXCEPT !.t = SetProgressCallback(@, id, ProgressIntervalSec),
                           !.last = "SetProgressCallback", !.n = @ + 1]
    /\ UNCHANGED htOthers

HTStart ==
    /\ ht.pc = "live"
    /\ ht.n < MaxHTCalls
    /\ ht' = [ht EXCEPT !.t = TStart(@), !.last = "Start", !.n = @ + 1]
    /\ UNCHANGED htOthers

HTCancel ==
    /\ ht.pc = "live"
    /\ ht.n < MaxHTCalls
    /\ ht' = [ht EXCEPT !.t = TCancel(@), !.last = "Cancel", !.n = @ + 1]
    /\ UNCHANGED htOthers

\* Wait(): the streaming transactor's Wait(), or httpClient.Close().
HTWait ==
    /\ ht.pc = "live"
    /\ ht.n < MaxHTCalls
    /\ TWaitCanReturn(ht.t)
    /\ \E err \in TWaitErrors(ht.t) :
          ht' = [ht EXCEPT !.closed = @ \/ ht.http,
                           !.last = IF err THEN "WaitErr" ELSE "Wait", !.n = @ + 1]
    /\ UNCHANGED htOthers

\* GetTxCount(), GetTxBytes() and GetTxRate().
HTRead ==
    /\ ht.pc = "live"
    /\ ht.n < MaxHTCalls
    /\ ht' = [ht EXCEPT !.read = [txCount |-> GetTxCount(ht.t),
                                   txBytes |-> GetTxBytes(ht.t),
                                   txRate |-> GetTxRate(ht.t)],
                        !.last = "Read", !.n = @ + 1]
    /\ UNCHANGED htOthers

\* The send loop of a running transactor sends one transaction.
HTSend ==
    /\ ht.pc = "live"
    /\ ht.t.running
    /\ ht.t.txCount < MaxTx
    /\ ht' = [ht EXCEPT !.t.txCount = @ + 1, !.t.txBytes = @ + MinTxSize]
    /\ UNCHANGED htOthers

\* The send loop of a running transactor ends.
HTDrain ==
    /\ ht.pc = "live"
    /\ ht.t.running
    /\ ht' = [ht EXCEPT !.t.running = FALSE]
    /\ UNCHANGED htOthers

NextHT ==
    \/ HTNew
    \/ HTSetProgressCallback
    \/ HTStart
    \/ HTCancel
    \/ HTWait
    \/ HTRead
    \/ HTSend
    \/ HTDrain

SpecHT == InitHT /\ [][NextHT]_vars

\* A transactor used on its own, or an orchestrator run.
SpecHTRun == (InitHT \/ Init) /\ [][(pc = "off" /\ NextHT) \/ Next]_vars

\* ================================================== HTTPRPCClient request ids
\* Goroutines calling one HTTPRPCClient.
Callers == 1..NumGoroutines
ClientOps == {"BroadcastTx", "HealthCheck"}

\* Mutant: c.mutex does not exclude.
MutexFree_Always(mutex) == TRUE

\* c.mutex.Lock() returns when no goroutine holds the mutex.
MutexFree(mutex) == mutex = 0

IdleCaller == [op |-> "none", pc |-> "idle", reqID |-> 0]

\* NewHTTPRPCClient: requestID starts at 1.
InitHC ==
    /\ OrchIdle
    /\ CBIdle
    /\ AuxIdleBut("hc")
    /\ hc = [requestID |-> 1, mutex |-> 0, g |-> [c \in Callers |-> IdleCaller],
             sent |-> <<>>, failed |-> {}, calls |-> 0]

\* A goroutine calls BroadcastTx or HealthCheck.
HCCall(c) ==
    /\ hc.g[c].pc = "idle"
    /\ hc.calls < MaxRequests
    /\ \E op \in ClientOps :
          hc' = [hc EXCEPT !.g[c] = [op |-> op, pc |-> "lock", reqID |-> 0],
                           !.calls = @ + 1]
    /\ UNCHANGED hcOthers

\* c.mutex.Lock()
HCLock(c) ==
    /\ hc.g[c].pc = "lock"
    /\ MutexFree(hc.mutex)
    /\ hc' = [hc EXCEPT !.mutex = c, !.g[c].pc = "read"]
    /\ UNCHANGED hcOthers

\* reqID := c.requestID
HCRead(c) ==
    /\ hc.g[c].pc = "read"
    /\ hc' = [hc EXCEPT !.g[c].reqID = hc.requestID, !.g[c].pc = "inc"]
    /\ UNCHANGED hcOthers

\* c.requestID++
HCInc(c) ==
    /\ hc.g[c].pc = "inc"
    /\ hc' = [hc EXCEPT !.requestID = hc.g[c].reqID + 1, !.g[c].pc = "unlock"]
    /\ UNCHANGED hcOthers

\* c.mutex.Unlock(); the request is built with ID: reqID.
HCUnlock(c) ==
    /\ hc.g[c].pc = "unlock"
    /\ hc' = [hc EXCEPT !.mutex = 0, !.g[c].pc = "post",
                        !.sent = Append(@, hc.g[c].reqID)]
    /\ UNCHANGED hcOthers

\* httpClient.Post and the reading of the response: the call returns a
\* result or an error.
HCPost(c) ==
    /\ hc.g[c].pc = "post"
    /\ \E ok \in BOOLEAN :
          hc' = [hc EXCEPT !.g[c] = IdleCaller,
                           !.failed = IF ok THEN @ ELSE @ \cup {hc.g[c].reqID}]
    /\ UNCHANGED hcOthers

NextHC ==
    \/ \E c \in Callers : HCCall(c)
    \/ \E c \in Callers : HCLock(c)
    \/ \E c \in Callers : HCRead(c)
    \/ \E c \in Callers : HCInc(c)
    \/ \E c \in Callers : HCUnlock(c)
    \/ \E c \in Callers : HCPost(c)

SpecHC == InitHC /\ [][NextHC]_vars

\* ================================================= the CLI's runLoadTest
OutputFormats == {"live", "json", "csv", "summary"}

\* What Recover() returns in a deferred closure that a panic unwinds
\* through: Recover() calls RecoverWithError(), which calls recover().
RecoverInClosure(pval) ==
    IF RecoverStops(DeferDepth("Recover")) THEN handlePanic(pval) ELSE NilErr

EmptyStats == [filled |-> FALSE, TotalTxs |-> 0]

InitCLI ==
    /\ OrchIdle
    /\ CBIdle
    /\ AuxIdleBut("cli")
    /\ \E format \in OutputFormats, quiet \in BOOLEAN, profile \in BOOLEAN,
          endpoints \in BOOLEAN, mgmt \in BOOLEAN :
          cli = [format |-> format, quiet |-> quiet,
                 profile |-> profile,     \* --profile was given
                 endpoints |-> endpoints, \* --endpoints was given
                 mgmt |-> mgmt,           \* a management flag was given
                 mpc |-> "main", \* main | select | sleep | display | ret | standard | exit
                 source |-> "none",     \* the configuration of the run: profile | flags
                 runs |-> <<>>,         \* the sources of the load tests started
                 failure |-> "none",    \* none | command | config | loadtest
                 g |-> "none",    \* none | exec | fill | fill2 | ended: the goroutine
                 psl |-> 0,             \* TotalTxs returned by the execution
                 raced |-> FALSE,       \* stats were read while being written
                 gres |-> "none",       \* none | ok | err | panic
                 reporter |-> "none",   \* none | ticking | ended
                 ticks |-> 0,
                 ctxDone |-> FALSE,
                 sigPending |-> FALSE,
                 interrupted |-> FALSE,
                 loadTestErr |-> NilErr,
                 stats |-> EmptyStats,
                 displayed |-> "none",  \* none | shown | failed
                 shown |-> EmptyStats,
                 execAtReturn |-> "none",
                 runResult |-> "none",  \* none | nil | err
                 mainPanic |-> FALSE,
                 fatal |-> FALSE,
                 exit |-> 0 - 1]

CLIRunning == cli.exit = 0 - 1

\* A panic in main outside SafeExecute unwinds through main's deferred
\* closure: Recover() non-nil prints "Fatal error" and exits with 1;
\* otherwise the panic goes on and the runtime ends the process with 2.
CLIMainPanic ==
    /\ CLIRunning
    /\ cli.mpc \in {"main", "standard"}
    /\ \E pval \in PanicValues :
          LET err == RecoverInClosure(pval)
          IN  cli' = [cli EXCEPT !.mpc = "exit", !.mainPanic = TRUE,
                                 !.fatal = err # NilErr,
                                 !.exit = IF err # NilErr THEN 1 ELSE 2]
    /\ UNCHANGED cliOthers

\* runLoadTest(config) up to its select: a new context, signal.Notify, a
\* new reporter, and the load-test goroutine, which starts the periodic
\* reporter for live output and calls ExecuteStandaloneWithStats.
runLoadTest(c, source) ==
    [c EXCEPT !.mpc = "select", !.source = source, !.runs = Append(@, source),
              !.g = "exec", !.gres = "none", !.psl = 0, !.raced = FALSE,
              !.reporter = IF c.format = "live" /\ ~c.quiet THEN "ticking" ELSE "none",
              !.ticks = 0, !.ctxDone = FALSE, !.sigPending = FALSE,
              !.interrupted = FALSE, !.loadTestErr = NilErr, !.stats = EmptyStats,
              !.displayed = "none", !.shown = EmptyStats, !.execAtReturn = "none",
              !.runResult = "none"]

\* cli.Run() inside SafeExecute: a management command is handled and Run
\* returns; else with --profile handleLoadProfile loads the profile and
\* calls runLoadTest with its configuration; else Run returns nil.
CLICommands ==
    /\ CLIRunning
    /\ cli.mpc = "main"
    /\ \E ok \in BOOLEAN :
          cli' = IF cli.mgmt \/ cli.profile
                 THEN IF ~ok
                      THEN [cli EXCEPT !.mpc = "exit", !.failure = "command", !.exit = 1]
                      ELSE IF cli.mgmt THEN [cli EXCEPT !.mpc = "standard"]
                      ELSE runLoadTest(cli, "profile")
                 ELSE [cli EXCEPT !.mpc = "standard"]
    /\ UNCHANGED cliOthers

\* shouldRunStandardLoadTest
shouldRunStandardLoadTest(c) == ~c.mgmt /\ (c.profile \/ c.endpoints)

\* main after cli.Run(): shouldRunStandardLoadTest, buildConfig (which asks
\* for --endpoints), and runLoadTest with the configuration of the flags.
CLIStandard ==
    /\ CLIRunning
    /\ cli.mpc = "standard"
    /\ cli' = IF ~shouldRunStandardLoadTest(cli)
              THEN [cli EXCEPT !.mpc = "exit", !.exit = 0]
              ELSE IF ~cli.endpoints
              THEN [cli EXCEPT !.mpc = "exit", !.failure = "config", !.exit = 1]
              ELSE runLoadTest(cli, "flags")
    /\ UNCHANGED cliOthers

\* ExecuteStandaloneWithStats returns its statistics; executeLoadTest takes
\* reporter.mu and begins to add them to reporter.stats.
CLIExecOk ==
    /\ CLIRunning
    /\ cli.g = "exec"
    /\ \E txs \in 0..MaxTx :
          cli' = [cli EXCEPT !.g = "fill", !.psl = txs]
    /\ UNCHANGED cliOthers

\* reporter.stats.TotalTxs += int64(ps.TotalTxs)
CLIFillTotals ==
    /\ CLIRunning
    /\ cli.g = "fill"
    /\ cli' = [cli EXCEPT !.g = "fill2", !.stats.TotalTxs = @ + cli.psl]
    /\ UNCHANGED cliOthers

\* The other fields of reporter.stats are written, executeLoadTest returns
\* nil and the goroutine ends.
CLIFillRest ==
    /\ CLIRunning
    /\ cli.g = "fill2"
    /\ cli' = [cli EXCEPT !.g = "ended", !.gres = "ok", !.stats.filled = TRUE]
    /\ UNCHANGED cliOthers

\* ExecuteStandaloneWithStats returns an error: loadTestErr = err; cancel().
CLIExecErr ==
    /\ CLIRunning
    /\ cli.g = "exec"
    /\ cli' = [cli EXCEPT !.g = "ended", !.gres = "err",
                          !.loadTestErr = NewError("LOADTEST", "tm-load-test execution failed"),
                          !.ctxDone = TRUE]
    /\ UNCHANGED cliOthers

\* executeLoadTest panics: the goroutine's deferred closure calls Recover(),
\* then the deferred RecoverWithCallback(nil) of SafeGoWithContext runs.
CLIExecPanic ==
    /\ CLIRunning
    /\ cli.g = "exec"
    /\ \E pval \in PanicValues :
          LET err == RecoverInClosure(pval)
              stopped == err # NilErr \/ RecoverStops(DeferDepth("SafeGoWithContext"))
          IN  cli' = [cli EXCEPT !.g = "ended", !.gres = "panic",
                                 !.loadTestErr = IF err # NilErr THEN err ELSE @,
                                 !.ctxDone = @ \/ err # NilErr,
                                 !.mpc = IF stopped THEN @ ELSE "exit",
                                 !.exit = IF stopped THEN @ ELSE 2]
    /\ UNCHANGED cliOthers

\* startPeriodicReporting: case <-ticker.C
CLITick ==
    /\ CLIRunning
    /\ cli.reporter = "ticking"
    /\ cli.ticks < MaxTicks
    /\ cli' = [cli EXCEPT !.ticks = @ + 1]
    /\ UNCHANGED cliOthers

\* startPeriodicReporting: case <-ctx.Done()
CLIReporterEnd ==
    /\ CLIRunning
    /\ cli.reporter = "ticking"
    /\ cli.ctxDone
    /\ cli' = [cli EXCEPT !.reporter = "ended"]
    /\ UNCHANGED cliOthers

\* SIGINT or SIGTERM is delivered to sigChan while runLoadTest waits.
CLISignal ==
    /\ CLIRunning
    /\ cli.mpc = "select"
    /\ ~cli.sigPending
    /\ cli' = [cli EXCEPT !.sigPending = TRUE]
    /\ UNCHANGED cliOthers

\* select: case <-ctx.Done()
CLISelectDone ==
    /\ CLIRunning
    /\ cli.mpc = "select"
    /\ cli.ctxDone
    /\ cli' = IF cli.loadTestErr # NilErr
              THEN [cli EXCEPT !.mpc = "ret", !.runResult = "err",
                               !.execAtReturn = cli.g]
              ELSE [cli EXCEPT !.mpc = "display"]
    /\ UNCHANGED cliOthers

\* select: case sig := <-sigChan: cancel(), then time.Sleep begins.
CLISelectSignal ==
    /\ CLIRunning
    /\ cli.mpc = "select"
    /\ cli.sigPending
    /\ cli' = [cli EXCEPT !.mpc = "sleep", !.sigPending = FALSE,
                          !.interrupted = TRUE, !.ctxDone = TRUE]
    /\ UNCHANGED cliOthers

\* time.Sleep(2 * time.Second) is over.
CLISleepDone ==
    /\ CLIRunning
    /\ cli.mpc = "sleep"
    /\ cli' = [cli EXCEPT !.mpc = "display"]
    /\ UNCHANGED cliOthers

\* What displayResults can read from reporter.stats, which it reads without
\* reporter.mu: while executeLoadTest writes the fields, the old or the new
\* value of each.
StatsRead(c) ==
    IF c.g \in {"fill", "fill2"}
    THEN [filled : {FALSE, TRUE}, TotalTxs : {0, c.psl}]
    ELSE {c.stats}

\* displayResults(reporter.stats), then runLoadTest returns and its deferred
\* cancel() runs; only the JSON encoder can return an error.
CLIDisplay ==
    /\ CLIRunning
    /\ cli.mpc = "display"
    /\ \E ok \in (IF cli.format = "json" THEN BOOLEAN ELSE {TRUE}),
          read \in StatsRead(cli) :
          cli' = [cli EXCEPT !.mpc = "ret",
                             !.displayed = IF ok THEN "shown" ELSE "failed",
                             !.shown = read,
                             !.raced = cli.g \in {"fill", "fill2"},
                             !.runResult = IF ok THEN "nil" ELSE "err",
                             !.execAtReturn = cli.g,
                             !.ctxDone = TRUE]
    /\ UNCHANGED cliOthers

\* runLoadTest has returned to main through SafeExecute: log.Fatal on an
\* error; after the run of cli.Run() main goes on, after the standard run
\* it returns.
CLIMainReturn ==
    /\ CLIRunning
    /\ cli.mpc = "ret"
    /\ cli' = IF cli.runResult = "err"
              THEN [cli EXCEPT !.mpc = "exit", !.ctxDone = TRUE,
                               !.failure = "loadtest", !.exit = 1]
              ELSE IF cli.source = "profile"
              THEN [cli EXCEPT !.mpc = "standard", !.ctxDone = TRUE]
              ELSE [cli EXCEPT !.mpc = "exit", !.ctxDone = TRUE, !.exit = 0]
    /\ UNCHANGED cliOthers

\* The steps of the program; the signal is the environment's.
CLIProgram ==
    \/ CLIMainPanic
    \/ CLICommands
    \/ CLIStandard
    \/ CLIExecOk
    \/ CLIFillTotals
    \/ CLIFillRest
    \/ CLIExecErr
    \/ CLIExecPanic
    \/ CLITick
    \/ CLIReporterEnd
    \/ CLISelectDone
    \/ CLISelectSignal
    \/ CLISleepDone
    \/ CLIDisplay
    \/ CLIMainReturn

NextCLI ==
    \/ CLIMainPanic
    \/ CLICommands
    \/ CLIStandard
    \/ CLIExecOk
    \/ CLIFillTotals
    \/ CLIFillRest
    \/ CLIExecErr
    \/ CLIExecPanic
    \/ CLITick
    \/ CLIReporterEnd
    \/ CLISignal
    \/ CLISelectDone
    \/ CLISelectSignal
    \/ CLISleepDone
    \/ CLIDisplay
    \/ CLIMainReturn

SpecCLI == InitCLI /\ [][NextCLI]_vars

\* The Go scheduler runs every runnable goroutine and timers expire; no
\* signal need ever be sent.
SpecCLIFair == SpecCLI /\ WF_vars(CLIProgram)

\* ================================================================ claims
\* ------------------------------------------------------------ orchestrator
Created == Range(transactors)
AllTr == 1..MaxEndpoints
WaitReturns(i) == Count("WaitRet", i) + Count("WaitRetErr", i)
NoCreateFailure == \A k \in AllTr : Count("CreateFailed", k) = 0
Returned == pc = "done"
ReturnedReport == pc = "done" /\ ret.kind = "response"
TxCounts == [i \in AllTr |-> tr[i].txCount]
TxBytes == [i \in AllTr |-> tr[i].txBytes]

\* C1: in a run over N endpoints in which every creation succeeds, exactly N
\* transports are created, and by the time the report is returned each has
\* received exactly one Start(), one Cancel() and one Wait(), whether the
\* timer or the caller's cancellation ended the active phase.
C1_EachTransportOnce ==
    NoCreateFailure =>
       /\ \A i \in AllTr : \A op \in {"Create", "Start", "Cancel", "Wait"} :
             Count(op, i) <= 1
       /\ ReturnedReport =>
             /\ phaseEnd \in {"timer", "ctx"}
             /\ Len(transactors) = N
             /\ \A i \in 1..N :
                   /\ Count("Create", i) = 1
                   /\ Count("Start", i) = 1
                   /\ Count("Cancel", i) = 1
                   /\ Count("Wait", i) = 1
                   /\ WaitReturns(i) = 1
             /\ \A k \in 1..Len(calls) : calls[k].t \in 1..N

C1_Witness == ReturnedReport /\ N >= 2 /\ phaseEnd = "ctx"

\* C2: when creation fails at index k, no Create is attempted beyond k, every
\* transport created before k has received Cancel() and Wait() by the time
\* the error is returned, and the call returns an error and no report.
C2_CreationFailureCleansUp ==
    \A k \in AllTr : Count("CreateFailed", k) > 0 =>
       /\ \A i \in AllTr : i >= k => Count("Create", i) = 0
       /\ \A i \in AllTr : i > k => Count("CreateFailed", i) = 0
       /\ ret.kind # "response"
       /\ Returned =>
             /\ ret.kind = "error"
             /\ ret.code = "Internal"
             /\ \A i \in 1..(k - 1) :
                   /\ Count("Create", i) = 1
                   /\ Count("Cancel", i) = 1
                   /\ Count("Wait", i) = 1
                   /\ WaitReturns(i) = 1

C2_Witness ==
    Returned /\ \E k \in AllTr : k >= 2 /\ Count("CreateFailed", k) > 0

\* C3: after the active phase ends, every Cancel() call comes before the
\* first Wait() call: no Wait() on i is invoked before Cancel() on j.
C3_AllCancelsBeforeWaits ==
    phaseEnd # "none" =>
       \A i \in Created, j \in Created :
          \A p \in Pos("Wait", i), q \in Pos("Cancel", j) : q < p

\* C4: the report's TotalTxs and TotalBytes are the sums of the transports'
\* final counters, each read only after that transport's Wait() returned.
C4_TotalsAreFinalSums ==
    /\ \A i \in AllTr : \A g \in Pos("GetStats", i) :
          \E w \in Pos("WaitRet", i) \cup Pos("WaitRetErr", i) : w < g
    /\ ReturnedReport =>
          /\ ret.resp.TotalTxs = SumOver(TxCounts, Created)
          /\ ret.resp.TotalBytes = SumOver(TxBytes, Created)
          /\ \A i \in Created : Count("GetStats", i) = 1

C4_Witness ==
    /\ ReturnedReport
    /\ ret.resp.TotalTxs > 0
    /\ \E i \in Created : tr[i].txCount = 0
    /\ \E i \in Created : tr[i].txCount > 1

\* C5: when some Wait() returned an error, the report comes with a non-nil
\* error that holds every such Wait() error.
C5_WaitErrorsReturned ==
    ReturnedReport =>
       \A i \in Created : Count("WaitRetErr", i) > 0 => i \in ret.errs

\* C6: a Wait() error on one transport does not stop the others from being
\* cancelled and waited on, and every transport's counters are in the report.
C6_WaitErrorDoesNotAbort ==
    (Returned /\ \E i \in Created : Count("WaitRetErr", i) > 0) =>
       /\ ret.kind = "response"
       /\ \A j \in Created :
             /\ Count("Cancel", j) = 1
             /\ Count("Wait", j) = 1
             /\ WaitReturns(j) = 1
             /\ Count("GetStats", j) = 1
       /\ ret.resp.TotalTxs = SumOver(TxCounts, Created)
       /\ ret.resp.TotalBytes = SumOver(TxBytes, Created)

C6_Witness ==
    /\ Returned
    /\ Len(transactors) >= 2
    /\ Count("WaitRetErr", transactors[1]) > 0
    /\ tr[transactors[1]].txCount > 0
    /\ tr[transactors[2]].txCount > 0

\* C7: without a creation failure no transport is cancelled before the timer
\* has fired or the context has been cancelled; the branch taken is one that
\* was ready, and after either branch every transport is cancelled and
\* waited on and a report returned.
C7_StopOnlyAfterPhaseEnd ==
    NoCreateFailure =>
       /\ (\E i \in AllTr : Count("Cancel", i) > 0) => phaseEnd # "none"
       /\ phaseEnd = "timer" => timer = "fired"
       /\ phaseEnd = "ctx" => ctxDone
       /\ phaseEnd = "none" => pc # "done" \/ ret.kind = "error"
       /\ (Returned /\ phaseEnd # "none") =>
             /\ ret.kind = "response"
             /\ \A i \in Created :
                   Count("Cancel", i) = 1 /\ Count("Wait", i) = 1 /\ WaitReturns(i) = 1

C7_Witness ==
    Returned /\ phaseEnd = "timer" /\ ~ctxDone /\ Len(transactors) >= 2

\* --------------------------------------------------------- circuit breaker
\* C8: after maxFailures failing calls in a row, every Execute call issued
\* before resetTimeout has elapsed since the last failure is rejected and
\* does not invoke the wrapped function.
C8_OpenRejects ==
    [][(/\ obs'.issued = obs.issued + 1
        /\ obs.consecFails >= cb.maxFailures
        /\ now - obs.lastFailAt < cb.resetTimeout)
       => (/\ obs'.rejected = obs.rejected + 1
           /\ obs'.invoked = obs.invoked
           /\ gpc' = gpc)]_vars

C8_Witness ==
    /\ obs.last = "rejected"
    /\ cb.maxFailures >= 2
    /\ obs.consecFails >= cb.maxFailures
    /\ now > obs.lastFailAt
    /\ now - obs.lastFailAt < cb.resetTimeout

\* C9: once the breaker is Open and resetTimeout has elapsed, one trial call
\* is let through, and until it completes every other call is rejected: no
\* two calls let through the open breaker are inside the wrapped function.
C9_SingleTrialCall ==
    Cardinality({g \in DOMAIN gpc : gpc[g] = "infn" /\ trial[g]}) <= 1

\* C10: a trial call that succeeds leaves the breaker Closed with
\* failureCount 0; one that fails leaves it Open, and the next resetTimeout
\* runs from the time of that failure.
C10_TrialOutcome ==
    [][\A g \in DOMAIN gpc :
          (gpc[g] = "infn" /\ gpc'[g] = "idle" /\ trial[g] /\ cb.state = "HalfOpen") =>
             /\ obs'.last = "ok" => cb'.state = "Closed" /\ cb'.failureCount = 0
             /\ obs'.last = "fail" =>
                   /\ cb'.state = "Open"
                   /\ cb'.lastFailureTime = now
                   /\ \A t \in now..(MaxTime + MaxResetTimeout + 1) :
                         ExecuteGate(cb', t).admit <=> (t - now > cb.resetTimeout)]_vars

C10_Witness == obs.trialOk >= 1 /\ obs.trialFail >= 1 /\ obs.last = "fail"

\* C11: while the breaker is Closed, a failing call adds one to failureCount
\* and the breaker opens exactly when the count reaches maxFailures; a
\* successful call sets failureCount to zero, so a Closed breaker's count is
\* the number of failing calls since the last success and stays below
\* maxFailures.
C11_ClosedCounting ==
    /\ [](cb.state = "Closed" =>
            cb.failureCount = obs.consecFails /\ cb.failureCount < cb.maxFailures)
    /\ [][\A g \in DOMAIN gpc :
            (gpc[g] = "infn" /\ gpc'[g] = "idle" /\ cb.state = "Closed") =>
               /\ obs'.last = "fail" =>
                     /\ cb'.failureCount = cb.failureCount + 1
                     /\ cb'.state \in {"Closed", "Open"}
                     /\ cb'.state = "Open" <=> cb'.failureCount = cb.maxFailures
               /\ obs'.last = "ok" =>
                     cb'.failureCount = 0 /\ cb'.state = "Closed"]_vars

C11_Witness ==
    /\ obs.failOkFail
    /\ obs.last = "fail"
    /\ cb.state = "Closed"
    /\ cb.failureCount = 1
    /\ obs.rejected = 0
    /\ obs.trialOk + obs.trialFail = 0

\* ------------------------------------------------ panic wrappers, retries
RetryDone == rc.pc = "done" /\ rc.helper \in RetryHelpers
Invocations == Len(rc.outs)

\* C12: for a function that fails with an error that is not retriable, the
\* retry helpers invoke it exactly once, do not sleep and return that error,
\* whatever maxRetries is.
C12_NonRetriableOnce ==
    (RetryDone /\ rc.fn = "nonretriable") =>
       /\ Invocations = 1
       /\ rc.sleeps = <<>>
       /\ rc.result = rc.outs[1]
       /\ ~IsRecoverable(rc.result)

\* C13: for a function that always fails with a retriable error and
\* maxRetries >= 0, ExponentialBackoffRetry invokes it maxRetries + 1 times,
\* sleeps maxRetries times (never after the last attempt), returns the last
\* invocation's error, and does terminate; whatever the function, an
\* invocation that returns nil is the last one and the helper returns nil.
C13_RetryExhausts ==
    /\ []((rc.helper = "ExponentialBackoffRetry" /\ rc.pc # "call") =>
            /\ (rc.fn = "retriable" /\ rc.config.MaxRetries >= 0) =>
                  /\ Invocations <= rc.config.MaxRetries + 1
                  /\ Len(rc.sleeps) <= rc.config.MaxRetries
                  /\ Len(rc.sleeps) <= Invocations
                  /\ rc.pc = "done" =>
                        /\ Invocations = rc.config.MaxRetries + 1
                        /\ Len(rc.sleeps) = rc.config.MaxRetries
                        /\ rc.result = rc.outs[Invocations]
                        /\ rc.result # NilErr
            /\ \A k \in 1..Invocations : rc.outs[k] = NilErr =>
                  /\ k = Invocations
                  /\ rc.pc = "done" => rc.result = NilErr)
    /\ <>(rc.helper = "ExponentialBackoffRetry" => rc.pc = "done")

C13_Witness ==
    /\ rc.helper = "ExponentialBackoffRetry"
    /\ rc.fn = "retriable"
    /\ rc.pc = "done"
    /\ rc.config.MaxRetries = MaxRetriesBound
    /\ Len(rc.sleeps) = MaxRetriesBound

\* C14: a panic of a function run through SafeGo, SafeGoWithContext or
\* SafeExecute does not leave the wrapper, whatever the panic value: the
\* process is not crashed and the goroutine or call ends.
C14_PanicContained ==
    /\ ~rc.crashed
    /\ rc.pc # "crashed"
    /\ rc.pc = "panicking" => ENABLED DeferredRecover

C14_Witness ==
    /\ rc.helper \in GoHelpers
    /\ rc.pc = "done"
    /\ rc.pval = "other"
    /\ rc.logged = handlePanic("other")

\* C15: when the function passed to SafeExecute panics, SafeExecute returns
\* the Internal LoadTestError made from the panic, never nil.
C15_PanicReturnedAsError ==
    (rc.helper = "SafeExecute" /\ rc.pc = "done" /\ rc.pval # "") =>
       /\ rc.result = handlePanic(rc.pval)
       /\ rc.result.type = "INTERNAL"
       /\ rc.result # NilErr

\* ----------------------------------------------------------------- factory
\* C16: for a ws or wss endpoint CreateTransactor calls the streaming
\* constructor and returns its transactor (or its error); for an http or
\* https endpoint it returns the hybrid HTTP transactor; for every other
\* scheme it returns the unsupported-protocol error, and for a URL that does
\* not parse the invalid-URL error, without calling any constructor.
C16_FactoryDispatch ==
    \A k \in 1..Len(fa.results) :
       LET e == fa.endpoints[k]
           r == fa.results[k]
       IN  /\ e \in {"ws", "wss"} =>
                 /\ r.ctor = "loadtest.NewTransactor"
                 /\ r.kind = IF r.ok THEN "ws" ELSE "none"
           /\ e \in {"http", "https"} =>
                 r.ok /\ r.kind = "http" /\ r.ctor = "NewHybridTransactor"
           /\ e \notin {"ws", "wss", "http", "https"} =>
                 /\ ~r.ok
                 /\ r.kind = "none"
                 /\ r.ctor = "none"
                 /\ r.err = IF e = "%" THEN "invalid endpoint URL"
                            ELSE "unsupported protocol"

C16_Witness ==
    /\ Len(fa.results) = 2
    /\ fa.endpoints[1] = "wss"
    /\ fa.results[1].ok
    /\ fa.endpoints[2] = "tcp"

\* -------------------------------------------- orchestrator, second part
\* The RunConfig invariant on the numeric fields of a request.
RunConfigValid(request) ==
    /\ request.rate > 0
    /\ request.duration > 0
    /\ request.connections > 0
    /\ request.txSize >= MinTxSize

\* C17: a request whose rate, duration or connection count is not positive,
\* or whose transaction size is below the minimum, never reaches the factory
\* and is answered with a validation error.
C17_InvalidConfigRejected ==
    ~RunConfigValid(req) =>
       /\ calls = <<>>
       /\ transactors = <<>>
       /\ pc \in {"idle", "done"}
       /\ pc = "done" => ret.kind = "error" /\ ret.code = "InvalidArgument"

\* C18: a request with an empty endpoint list is answered with an
\* invalid-argument error, and no transport is created, started or
\* cancelled for it.
C18_EmptyEndpointsRejected ==
    N = 0 =>
       /\ calls = <<>>
       /\ transactors = <<>>
       /\ timer = "off"
       /\ pc \in {"idle", "done"}
       /\ pc = "done" => ret.kind = "error" /\ ret.code = "InvalidArgument"

C18_Witness == N = 0 /\ pc = "done" /\ req.clientFactory = "factory"

\* C19: RunLoadtest can only be held up in the select and in a Wait() call,
\* and when cancelled transports drain, a run whose timer has fired or whose
\* caller has cancelled goes on to return.
C19_RunReturns ==
    /\ [](pc \in {"create", "cleanup_cancel", "start", "stop_cancel", "stop_wait",
                  "stop_stats"} => ENABLED OrchStep)
    /\ (pc = "select" /\ (timer = "fired" \/ ctxDone)) ~> (pc = "done")

C19_Witness ==
    /\ ReturnedReport
    /\ phaseEnd = "ctx"
    /\ N = 1
    /\ tr[1].kind = "ws"
    /\ tr[1].stop
    /\ tr[1].txCount = MaxTx

\* C20: every transport is created and given its progress callback (id its
\* endpoint index, interval 5 seconds) before any Start(), every transport
\* is started before the timer is armed, and no transport gets
\* SetProgressCallback after its Start().
C20_PhasesOrdered ==
    LET starts == {k \in 1..Len(calls) : calls[k].op = "Start"}
        setups == {k \in 1..Len(calls) :
                      calls[k].op \in {"Create", "SetProgressCallback"}}
    IN  /\ \A i \in Created :
              /\ tr[i].cbId = i - 1
              /\ tr[i].cbInterval = ProgressIntervalSec
        /\ Cardinality(setups) = 2 * Len(transactors)
        /\ \A k \in setups : calls[k].t \in Created
        /\ starts # {} =>
              /\ Created = 1..N
              /\ \A p \in setups, q \in starts : p < q
        /\ timer # "off" =>
              /\ Cardinality(starts) = N
              /\ \A i \in 1..N : tr[i].started

C20_Witness ==
    /\ pc = "select"
    /\ timer = "armed"
    /\ N = MaxEndpoints
    /\ \A i \in 1..N : tr[i].started /\ tr[i].txCount = 0

\* --------------------------------------------------------- error collector
\* The non-nil errors among the arguments of the Add calls, in order.
RECURSIVE NonNil(_)
NonNil(s) ==
    IF s = <<>> THEN <<>>
    ELSE IF s[1] = NilErr THEN NonNil(Tail(s))
    ELSE <<s[1]>> \o NonNil(Tail(s))

\* C21: after any sequence of Add calls, HasErrors() is true exactly when a
\* non-nil error was added, GetFirstError() is the first non-nil error added,
\* and ToMultiError() is nil for no error, the error itself for one, and
\* otherwise a MultiError over all added errors in order whose message gives
\* their number.
C21_CollectorReadsAdds ==
    LET added == NonNil(ec.adds) IN
       /\ HasErrors(ec.errors) <=> added # <<>>
       /\ GetFirstError(ec.errors) = IF added = <<>> THEN NilErr ELSE added[1]
       /\ added = <<>> => ToMultiError(ec.errors).kind = "nil"
       /\ Len(added) = 1 =>
             /\ ToMultiError(ec.errors).kind = "error"
             /\ ToMultiError(ec.errors).err = added[1]
       /\ Len(added) > 1 =>
             /\ ToMultiError(ec.errors).kind = "multi"
             /\ ToMultiError(ec.errors).errors = added
             /\ MultiErrorMessage(ToMultiError(ec.errors).errors).n = Len(added)

C21_Witness ==
    /\ Len(ec.adds) = MaxAdds
    /\ ec.adds[1] = NilErr
    /\ ec.adds[3] = NilErr
    /\ Len(ec.errors) = 2
    /\ ec.errors[1] # ec.errors[2]

\* ---------------------------------------------------- error classification
\* C22: IsRecoverable answers true for a LoadTestError of type Network,
\* Connection or Timeout, and false for Validation, Config and Permission,
\* for every other type, and for an error that is not a LoadTestError.
C22_RecoverableTypes ==
    \A k \in 1..Len(er) :
       /\ er[k].err.type \in {"NETWORK", "CONNECTION", "TIMEOUT"} => er[k].recoverable
       /\ er[k].err.type \in {"VALIDATION", "CONFIG", "PERMISSION"} => ~er[k].recoverable
       /\ er[k].err.type \in
             ErrorTypes \ {"NETWORK", "CONNECTION", "TIMEOUT", "VALIDATION", "CONFIG",
                           "PERMISSION"} => ~er[k].recoverable
       /\ er[k].err.type \notin ErrorTypes => ~er[k].recoverable

C22_Witness ==
    /\ Len(er) = 2
    /\ er[1].err.type = "TIMEOUT"
    /\ er[1].recoverable
    /\ er[2].err.type = "plain"
    /\ ~er[2].recoverable

\* ------------------------------------------------------ hybrid transactor
\* C23: NewHybridTransactor returns either an error and no transactor, or a
\* transactor in which exactly one of wsTransactor and httpClient is set:
\* the first for ws/wss, the second for http/https; a failing
\* sub-constructor gives an error and no transactor.
C23_NoHalfInitialized ==
    ht.pc # "new" =>
       \/ /\ ht.pc = "failed"
          /\ ht.err # ""
          /\ ht.t = NoTransport
          /\ ~ht.ws /\ ~ht.http
       \/ /\ ht.pc = "live"
          /\ ht.err = ""
          /\ ht.ws # ht.http
          /\ ht.ws <=> ht.endpoint \in {"ws", "wss"}
          /\ ht.http <=> ht.endpoint \in {"http", "https"}
          /\ ht.t.kind = IF ht.ws THEN "ws" ELSE "http"

C23_Witness ==
    /\ ht.pc = "failed"
    /\ ht.endpoint = "wss"
    /\ ht.err = "failed to create WebSocket transactor"

HttpEndpoints == {"http", "https"}

C25_CancelIdempotent ==
    [][(ht.pc = "live" /\ ht.http) =>
          /\ ENABLED HTCancel \/ ht.n >= MaxHTCalls
          /\ (ht'.last = "Cancel" /\ ht'.n = ht.n + 1) =>
                /\ ht'.t = [ht.t EXCEPT !.stop = TRUE]
                /\ ht' = [ht EXCEPT !.t = ht'.t, !.last = "Cancel", !.n = ht.n + 1]
                /\ ht.t.stop => ht'.t = ht.t]_vars

\* Cancel() before Start(), then Cancel() again.
C25_Witness ==
    /\ ht.pc = "live" /\ ht.http
    /\ ~ht.t.started
    /\ ht.t.stop
    /\ ht.last = "Cancel"
    /\ ht.n >= 2

\* ------------------------------------------------------ HTTPRPCClient ids
\* C26: on one HTTPRPCClient, under every interleaving of concurrent
\* BroadcastTx and HealthCheck calls, the requests carry the ids 1, 2, 3, ...
\* with no duplicate and no gap, and a request that fails has used up its
\* id.
C26_RequestIdsDistinct ==
    /\ \A i \in 1..Len(hc.sent) : hc.sent[i] = i
    /\ \A c \in Callers : hc.g[c].pc = "post" => hc.g[c].reqID \in 1..Len(hc.sent)
    /\ \A c, e \in Callers :
          (c # e /\ hc.g[c].pc = "post" /\ hc.g[e].pc = "post") =>
             hc.g[c].reqID # hc.g[e].reqID
    /\ (hc.mutex = 0) => hc.requestID = Len(hc.sent) + 1
    /\ hc.failed \subseteq 1..Len(hc.sent)

\* Two concurrent requests of different kinds in flight, after a failed one.
C26_Witness ==
    /\ hc.failed = {1}
    /\ hc.sent = <<1, 2, 3>>
    /\ \E c, e \in Callers :
          /\ hc.g[c].pc = "post" /\ hc.g[c].op = "BroadcastTx"
          /\ hc.g[e].pc = "post" /\ hc.g[e].op = "HealthCheck"

\* ------------------------------------------------------------ backoff delays
BackoffCall == rc.helper = "ExponentialBackoffRetry"
\* float64(delay) * BackoffFactor as a Duration.
Multiplied(delay, config) == (delay * config.BackoffFactor10) \div 10

\* C27: in ExponentialBackoffRetry the first sleep lasts InitialDelay, each
\* later sleep lasts the previous one multiplied by BackoffFactor and capped
\* at MaxDelay, and once the multiplied delay exceeds MaxDelay every later
\* sleep lasts exactly MaxDelay.
C27_BackoffDelays ==
    BackoffCall =>
       LET config == EffectiveConfig(rc.config)
           n == Len(rc.sleeps)
       IN  /\ n >= 1 => rc.sleeps[1] = config.InitialDelay
           /\ \A i \in 2..n :
                 rc.sleeps[i] = IF Multiplied(rc.sleeps[i - 1], config) > config.MaxDelay
                                THEN config.MaxDelay
                                ELSE Multiplied(rc.sleeps[i - 1], config)
           /\ \A i \in 1..n :
                 Multiplied(rc.sleeps[i], config) > config.MaxDelay =>
                    \A j \in (i + 1)..n : rc.sleeps[j] = config.MaxDelay

\* ------------------------------------------------------------------ the CLI
RunLoadTestReturned == cli.mpc \in {"ret", "exit"} /\ cli.runResult # "none"

\* C28: when a signal arrives while runLoadTest waits on a running load
\* test, then by the time runLoadTest returns the context is cancelled, the
\* load-test execution has stopped and the results were displayed.
C28_InterruptStopsAndDisplays ==
    (cli.interrupted /\ RunLoadTestReturned) =>
       /\ cli.ctxDone
       /\ cli.execAtReturn # "exec"
       /\ cli.displayed # "none"

\* C29: a panic unwinding through a deferred closure that calls
\* recovery.Recover() is stopped there and the closure's error branch runs:
\* main prints the fatal error and exits with 1; the load-test goroutine
\* records loadTestErr and cancels the context.
C29_RecoverInClosureStops ==
    /\ cli.mainPanic => cli.fatal /\ cli.exit = 1
    /\ cli.gres = "panic" => cli.loadTestErr # NilErr /\ cli.ctxDone /\ cli.exit # 2

\* C30: when the load-test goroutine finishes without error, runLoadTest
\* eventually displays the results and returns, signal or no signal.
C30_SuccessReturns ==
    (cli.gres = "ok") ~> (RunLoadTestReturned /\ cli.displayed # "none")

\* ------------------------------------------------- creation failure, no Start
\* C31: in a run in which some creation fails, Start() is called on no
\* transport: the transports that the clean-up loop cancels and waits for
\* were created and never started.
C31_NoStartAfterCreateFailure ==
    (\E k \in AllTr : Count("CreateFailed", k) > 0) =>
       \A i \in AllTr :
          /\ Count("Start", i) = 0
          /\ ~tr[i].started
          /\ ~tr[i].running
          /\ Count("Cancel", i) > 0 => i \in Created /\ Count("Create", i) = 1

\* The second creation failed and the first transport was cleaned up.
C31_Witness ==
    /\ Returned
    /\ Count("CreateFailed", 2) > 0
    /\ Count("Cancel", 1) = 1
    /\ Count("Wait", 1) = 1

\* ------------------------------------------------ circuit breaker, invariants
NoExecuteInProgress == \A g \in DOMAIN gpc : gpc[g] = "idle"

\* C32: for a breaker with maxFailures >= 1 used by one caller at a time,
\* after every completed Execute or Reset call, Open implies
\* failureCount >= maxFailures and Closed implies failureCount < maxFailures.
C32_StateMatchesCount ==
    (cb.maxFailures >= 1 /\ NoExecuteInProgress) =>
       /\ cb.state = "Open" => cb.failureCount >= cb.maxFailures
       /\ cb.state = "Closed" => cb.failureCount < cb.maxFailures

\* Open again after a failed trial call.
C32_Witness ==
    /\ NoExecuteInProgress
    /\ cb.state = "Open"
    /\ obs.last = "fail"
    /\ obs.trialFail >= 1
    /\ cb.failureCount > cb.maxFailures

\* C33: HalfOpen is observable only while a trial call is in progress: when
\* no Execute call is in progress the breaker is Closed or Open, also after
\* a trial call whose function panicked.
C33_HalfOpenOnlyDuringTrial ==
    NoExecuteInProgress => cb.state \in {"Closed", "Open"}

\* C34: an Execute call rejected because the breaker is Open leaves state,
\* failureCount and lastFailureTime unchanged, so the time at which the
\* breaker admits its trial call is not moved by rejected calls.
C34_RejectionChangesNothing ==
    [][(obs'.rejected = obs.rejected + 1) =>
          /\ cb.state = "Open"
          /\ cb' = cb
          /\ cb'.lastFailureTime + cb'.resetTimeout = obs.lastFailAt + cb.resetTimeout]_vars

\* Two calls rejected at different times since the failure that opened it.
C34_Witness ==
    /\ cb.state = "Open"
    /\ obs.rejected >= 2
    /\ obs.last = "rejected"
    /\ now >= obs.lastFailAt + 1

\* ------------------------------------------------- MultiError after the call
\* C35: the errors held by a MultiError returned from ToMultiError are not
\* affected by later Add or Clear calls on the collector: Errors() and
\* Unwrap() keep returning the errors collected at the time of the call.
C35_MultiErrorUnaffected ==
    ec.me.kind = "multi" =>
       /\ Errors(ec.me) = ec.me.atCall
       /\ Unwrap(ec.me) = ec.me.atCall[1]

\* ------------------------------------------------------- retries, nil result
\* C36: ExponentialBackoffRetry and SafeExecuteWithRetry return nil only if
\* some invocation of the function completed and returned nil: never when
\* the function was not invoked, nor when every invocation failed or
\* panicked.
C36_NilOnlyAfterSuccess ==
    (RetryDone /\ rc.result = NilErr) =>
       \E k \in 1..Invocations : rc.outs[k] = NilErr

\* C37: every sleep of ExponentialBackoffRetry lasts at most MaxDelay,
\* whatever the RetryConfig, InitialDelay > MaxDelay included.
C37_SleepAtMostMaxDelay ==
    BackoffCall =>
       \A i \in 1..Len(rc.sleeps) : rc.sleeps[i] <= EffectiveConfig(rc.config).MaxDelay

\* ------------------------------------------------------- the CLI, --profile
\* C38: an invocation with --profile and no management flag executes
\* exactly one load test, with the profile's configuration: after it no
\* load test is built from the flags, and the invocation does not fail for
\* lack of --endpoints.
C38_ProfileRunsOnce ==
    (cli.profile /\ ~cli.mgmt) =>
       /\ Len(cli.runs) <= 1
       /\ \A k \in 1..Len(cli.runs) : cli.runs[k] = "profile"
       /\ cli.failure # "config"
       /\ cli.exit = 0 => cli.runs = <<"profile">>

\* C39: displayResults never reads reporter.stats while executeLoadTest may
\* still write it: on every path of runLoadTest, the interrupt path
\* included, the load-test goroutine has finished before the results are
\* read.
C39_StatsReadAfterWrites ==
    cli.displayed # "none" =>
       /\ cli.execAtReturn = "ended"
       /\ ~cli.raced

====
